---- MODULE Spec2Model ----
(***************************************************************************)
(* The timestep / synchronisation driver of MP-Gadget3 (run.c): the main   *)
(* loop of run(), find_next_sync_point_and_drift, find_next_outputtime and *)
(* human_interaction, executed by NTask MPI ranks.  Every rank holds its   *)
(* own copy of the driver state; the collectives (MPI_Allreduce,           *)
(* sumup_large_ints, MPI_Bcast) combine the ranks' values.                 *)
(*                                                                         *)
(* Times.  The integer timeline is 0..TIMEBASE.  A double output time is   *)
(* held on the logarithmic axis log(time/TimeBegin)/Timebase_interval in   *)
(* half ticks: the value tt stands for tt/2 ticks, TimeBegin is 0 and      *)
(* TimeMax is 2*TIMEBASE.                                                  *)
(***************************************************************************)
EXTENDS Integers, Sequences, FiniteSets, TLC

\* number of timebins (scaled down) and the length of the integer timeline
TIMEBINS == 3
TIMEBASE == 2 ^ TIMEBINS

\* number of MPI ranks
NTask == 2
\* the main loop is followed for at most this many iterations
MaxSteps == 3
\* number of entries of the output list
OutputListLength == 2

Ranks == 0 .. (NTask - 1)
Bins == 0 .. (TIMEBINS - 1)

\* the largest local particle number
MaxPart == 2
AllParts == 0 .. (MaxPart - 1)

\* the double output times the list is drawn from, in half ticks: before
\* TimeBegin, within tick 0, at tick 1 between two ticks, at tick 2, at
\* TimeMax and after TimeMax
OutputTimeGrid == {-1, 1, 3, 4, 2 * TIMEBASE, 2 * TIMEBASE + 1}

TimeBegin == 0
TimeMax == 2 * TIMEBASE

VARIABLES
    NumPart,            \* per rank: the local particle number
    pc,                 \* per rank: the position in run()
    trace,              \* per rank: the calls of the current loop iteration
    Ti_Current,         \* per rank: All.Ti_Current
    Ti_nextoutput,      \* per rank: All.Ti_nextoutput
    Time,               \* per rank: All.Time, as the tick set_global_time was given
    stopflag,           \* per rank: the global stopflag of run.c
    SnapshotFileCount,  \* per rank: All.SnapshotFileCount
    NumCurrentTiStep,   \* per rank: All.NumCurrentTiStep
    TimeBinCount,       \* per rank, per bin
    TimeBinActive,      \* per rank, per bin
    FirstInTimeBin,     \* per rank, per bin: head of the bin's list, or -1
    NextInTimeBin,      \* per rank, per particle
    TimeBin,            \* per rank, per particle: P[i].TimeBin
    FirstActiveParticle,
    NextActiveParticle,
    Flag_FullStep,
    GlobNumForceUpdate,
    NumForcesSinceLastDomainDecomp,
    OutputListTimes,    \* All.OutputListTimes, the same on every rank
    snapshots,          \* per rank: savepositions calls since the last human_interaction
    written,            \* per rank: every Ti_Current a snapshot was written at
    syncDrifts,         \* per rank: drift_particle calls of the last sync step
    walkDrifts,         \* per rank: particles drifted by the tree walk of this step
    collectives,        \* per rank: collectives entered in the last handler
    exitcode,           \* per rank: endrun code, 0 while running
    seen,               \* what rank 0 found in the last human_interaction
    stopTi,             \* per rank: Ti_Current when stopflag 1 or 2 came back, else -1
    dynUpdate,          \* per rank: what the call of ShouldWeDoDynamicUpdate in this
                        \* step worked out and returned
    Tree,               \* gravtree.c: Nodes[], Nextnode[] and NodeList of the walk
    P_Type,             \* gravtree.c: P[i].Type
    WalkIn,             \* gravtree.c: the query, lv->mode and the All parameters read
    WalkOut,            \* gravtree.c: what one treewalk of gravity_tree did
    P_Grav,             \* gravtree.c: P[place].GravAccel, .Potential and .GravCost
    Results,            \* gravtree.c: the results of the visits of one target and
                        \* which of them gravtree_reduce has been called on
    CoolingNoPrimordial, \* cooling.c: set by InitCool when there is no cooling or no table
    initCool,           \* cooling.c: the arguments of InitCool and the files it read
    UVF_disabled,       \* cooling.c: UVF.disabled
    inlogz,             \* cooling.c: the TREECOOL table, log10(1+z) per row
    gH0,                \* cooling.c: the TREECOOL table, gH0 per row
    nheattab,           \* cooling.c: the length of the table
    GlobalUVBG,         \* per rank: cooling.c's GlobalUVBG
    uvbgLog,            \* per rank: the accesses to GlobalUVBG and to the rate
                        \* tables in the current loop iteration
    coolIn,             \* cooling.c: the call under study and its arguments
    coolOut             \* cooling.c: what the call did

vars == << NumPart, pc, trace, Ti_Current, Ti_nextoutput, Time, stopflag, SnapshotFileCount,
           NumCurrentTiStep, TimeBinCount, TimeBinActive, FirstInTimeBin,
           NextInTimeBin, TimeBin, FirstActiveParticle, NextActiveParticle,
           Flag_FullStep, GlobNumForceUpdate, NumForcesSinceLastDomainDecomp,
           OutputListTimes, snapshots, written, syncDrifts, walkDrifts,
           collectives, exitcode, seen, stopTi, dynUpdate, Tree, P_Type, WalkIn, WalkOut,
           P_Grav, Results, CoolingNoPrimordial, initCool, UVF_disabled, inlogz, gH0, nheattab, GlobalUVBG,
           uvbgLog, coolIn, coolOut >>

\* the state of cooling.c
coolVars == << CoolingNoPrimordial, initCool, UVF_disabled, inlogz, gH0, nheattab, GlobalUVBG,
               uvbgLog, coolIn, coolOut >>

\* the state of gravtree.c
walkVars == << Tree, P_Type, WalkIn, WalkOut, P_Grav, Results >>

\* the state of the driver (run.c)
driverVars ==
    << NumPart, pc, trace, Ti_Current, Ti_nextoutput, Time, stopflag, SnapshotFileCount,
       NumCurrentTiStep, TimeBinCount, TimeBinActive, FirstInTimeBin,
       NextInTimeBin, TimeBin, FirstActiveParticle, NextActiveParticle,
       Flag_FullStep, GlobNumForceUpdate, NumForcesSinceLastDomainDecomp,
       OutputListTimes, snapshots, written, syncDrifts, walkDrifts,
       collectives, exitcode, seen, stopTi, dynUpdate >>

\* ShouldWeDoDynamicUpdate has not been called
NoDynamicUpdate ==
    [called |-> FALSE, ret |-> 0, ti_next_kick_global |-> 0, numforces |-> 0,
     TimeBinCount |-> [n \in Bins |-> 0]]

----------------------------------------------------------------------------
(* Collectives *)

Parts(r) == 0 .. (NumPart[r] - 1)

RECURSIVE SumRanks(_, _)
SumRanks(f, r) == IF r < 0 THEN 0 ELSE f[r] + SumRanks(f, r - 1)

RECURSIVE MinRanks(_, _)
MinRanks(f, r) ==
    IF r = 0 THEN f[0]
    ELSE LET m == MinRanks(f, r - 1) IN IF f[r] < m THEN f[r] ELSE m

\* MPI_Allreduce(..., MPI_MIN, MPI_COMM_WORLD): every rank gets the minimum
MPI_Allreduce_MIN_NoReduce(local) == local
MPI_Allreduce_MIN(local) == [r \in Ranks |-> MinRanks(local, NTask - 1)]

\* sumup_large_ints(1, &x, &sum): every rank gets the sum over all ranks
sumup_large_ints(local) == [r \in Ranks |-> SumRanks(local, NTask - 1)]

\* MPI_Bcast(&x, 1, MPI_INT, 0, MPI_COMM_WORLD): every rank gets rank 0's value
MPI_Bcast(local) == [r \in Ranks |-> local[0]]

\* All.TotNumPart: sumup_large_ints(1, &NumPart, &All.TotNumPart)
TotNumPart == SumRanks(NumPart, NTask - 1)

----------------------------------------------------------------------------
(* find_next_outputtime *)

\* (int) (log(time / All.TimeBegin) / All.Timebase_interval): the cast
\* truncates the non-negative quotient
TimeToTi(time) == time \div 2

RECURSIVE OutputLoop(_, _, _)
OutputLoop(i, ti_curr, list) ==
    IF i > Len(list) THEN -1
    ELSE LET time == list[i] IN
         IF time >= TimeBegin /\ time <= TimeMax /\ TimeToTi(time) >= ti_curr
         THEN TimeToTi(time)
         ELSE OutputLoop(i + 1, ti_curr, list)

find_next_outputtime_NoSentinel(ti_curr, list) == OutputLoop(1, ti_curr, list)
find_next_outputtime(ti_curr, list) ==
    LET ti_next == OutputLoop(1, ti_curr, list) IN
    IF ti_next = -1 THEN 2 * TIMEBASE ELSE ti_next

----------------------------------------------------------------------------
(* find_next_sync_point_and_drift, per rank *)

\* next kick time for a timebin
ti_next_for_bin_NoBinZero(n, ti) == (ti \div (2 ^ n)) * (2 ^ n) + (2 ^ n)
ti_next_for_bin(n, ti) ==
    IF n > 0 THEN (ti \div (2 ^ n)) * (2 ^ n) + (2 ^ n) ELSE ti

RECURSIVE KickLoop(_, _, _, _)
KickLoop(n, ti_next_kick, count, ti) ==
    IF n >= TIMEBINS THEN ti_next_kick
    ELSE IF count[n] # 0 /\ ti_next_for_bin(n, ti) < ti_next_kick
         THEN KickLoop(n + 1, ti_next_for_bin(n, ti), count, ti)
         ELSE KickLoop(n + 1, ti_next_kick, count, ti)

\* lines 168-186: the local next kick time
ti_next_kick_FromStart(count, ti) == KickLoop(0, TIMEBASE, count, 0)
ti_next_kick(count, ti) == KickLoop(0, TIMEBASE, count, ti)

\* lines 190-205: the snapshot loop; st = [cur, nextout, time, count, snaps]
SnapshotLoopCond_Strict(kick, nextout) == kick > nextout /\ nextout >= 0
SnapshotLoopCond(kick, nextout) == kick >= nextout /\ nextout >= 0

\* the state the loop starts in: the rank's time, pending output and file count
SnapshotStart(r) ==
    [ cur |-> Ti_Current[r], nextout |-> Ti_nextoutput[r], time |-> Time[r],
      count |-> SnapshotFileCount[r], snaps |-> <<>> ]

RECURSIVE SnapshotLoop(_, _, _, _)
SnapshotLoop(st, kick, flag, list) ==
    IF SnapshotLoopCond(kick, st.nextout)
    THEN SnapshotLoop(
            [ cur     |-> st.nextout,
              time    |-> st.nextout,
              count   |-> st.count + 1,
              snaps   |-> Append(st.snaps, [ti |-> st.nextout, time |-> st.nextout,
                                            num |-> st.count, flag |-> flag]),
              nextout |-> find_next_outputtime(st.nextout + 1, list) ],
            kick, flag, list)
    ELSE st

\* lines 218-232: mark the bins that will be active
BinIsActive_AllBins(n, kick) == 1
BinIsActive(n, kick) == IF n = 0 \/ kick % (2 ^ n) = 0 THEN 1 ELSE 0

MarkActive(kick) == [n \in Bins |-> BinIsActive(n, kick)]

RECURSIVE CountLoop(_, _, _, _)
CountLoop(n, num, active, count) ==
    IF n >= TIMEBINS THEN num
    ELSE CountLoop(n + 1, IF active[n] = 1 THEN num + count[n] ELSE num, active, count)

\* NumForceUpdate of lines 221-232
NumForceUpdate(active, count) == CountLoop(1, count[0], active, count)

\* lines 236-239
FullStep_Strict(glob) == IF glob > TotNumPart THEN 1 ELSE 0
FullStep(glob) == IF glob >= TotNumPart THEN 1 ELSE 0

\* lines 250-259: one bin's list is appended; st = [first, next, prev]
RECURSIVE BinWalk(_, _, _)
BinWalk(i, st, nextInBin) ==
    IF i < 0 THEN st
    ELSE BinWalk(nextInBin[i],
                 [ first |-> IF st.prev = -1 THEN i ELSE st.first,
                   next  |-> IF st.prev >= 0
                             THEN [st.next EXCEPT ![st.prev] = i] ELSE st.next,
                   prev  |-> i ],
                 nextInBin)

RECURSIVE ActiveLoop(_, _, _, _, _)
ActiveLoop(n, st, active, firstInBin, nextInBin) ==
    IF n >= TIMEBINS THEN st
    ELSE ActiveLoop(n + 1,
                    IF active[n] # 0 THEN BinWalk(firstInBin[n], st, nextInBin) ELSE st,
                    active, firstInBin, nextInBin)

\* lines 244-264: the active list [first, next]
BuildActiveList_NoTerminator(active, firstInBin, nextInBin, oldNext) ==
    LET st == ActiveLoop(0, [first |-> -1, next |-> oldNext, prev |-> -1],
                         active, firstInBin, nextInBin)
    IN  [first |-> st.first, next |-> st.next]
BuildActiveList(active, firstInBin, nextInBin, oldNext) ==
    LET st == ActiveLoop(0, [first |-> -1, next |-> oldNext, prev |-> -1],
                         active, firstInBin, nextInBin)
    IN  [ first |-> st.first,
          next  |-> IF st.prev >= 0 THEN [st.next EXCEPT ![st.prev] = -1] ELSE st.next ]

\* line 278: the test that ends the run with endrun(2)
CountsDiffer_OnlyMissing(glob, numforces2) == glob > numforces2
CountsDiffer(glob, numforces2) == glob # numforces2

\* lines 269-275: drift_particle(i, All.Ti_Current) along the active list;
\* fuel stops the walk of a list that does not end
DriftLoop_EveryParticle(i, calls, next, ti, fuel) ==
    [k \in 1 .. (fuel - 1) |-> <<k - 1, ti>>]
RECURSIVE DriftLoop(_, _, _, _, _)
DriftLoop(i, calls, next, ti, fuel) ==
    IF i < 0 \/ fuel = 0 THEN calls
    ELSE DriftLoop(next[i], Append(calls, <<i, ti>>), next, ti, fuel - 1)

----------------------------------------------------------------------------
(* The timebin lists, as the timestep code keeps them *)

Min(S) == CHOOSE x \in S : \A y \in S : x <= y

\* the lists of the bins for the bin tb[i] of every particle i, each list in
\* the order ord (an injection of the particles into the integers)
ListFirst(r, tb, ord) ==
    [n \in Bins |->
        LET members == {i \in Parts(r) : tb[i] = n} IN
        IF members = {} THEN -1
        ELSE CHOOSE i \in members : \A j \in members : ord[i] <= ord[j]]

ListNext(r, tb, ord) ==
    [i \in Parts(r) |->
        LET later == {j \in Parts(r) : tb[j] = tb[i] /\ ord[j] > ord[i]} IN
        IF later = {} THEN -1
        ELSE CHOOSE j \in later : \A k \in later : ord[j] <= ord[k]]

ListCount(r, tb) == [n \in Bins |-> Cardinality({i \in Parts(r) : tb[i] = n})]

IndexOrder(r) == [i \in Parts(r) |-> i]

\* the particles of a list, in list order
RECURSIVE ListOf(_, _, _)
ListOf(i, next, fuel) ==
    IF i < 0 \/ fuel = 0 THEN <<>> ELSE <<i>> \o ListOf(next[i], next, fuel - 1)

ActiveParticles(r) ==
    ListOf(FirstActiveParticle[r], NextActiveParticle[r], NumPart[r] + 1)

----------------------------------------------------------------------------
(* gravtree.c: the short-range tree walk.                                    *)
(* Indices below All.MaxPart are particles, the next MaxNodes are internal   *)
(* nodes, indices from All.MaxPart + MaxNodes on are pseudo-particles.  The  *)
(* geometry a node test reads is held per node: len is the side and len2 is  *)
(* len*len, r2 the squared distance from the target to the centre of mass,   *)
(* dist the periodic distance NEAREST(center[k] - pos[k]) on each axis, far  *)
(* says that the distance lies beyond the short-range table (line 529),      *)
(* inside is the outcome of lines 450-454, softOpen that of lines 463-477.   *)

MaxNodes == 2
NODELISTLENGTH == 2

Root == MaxPart
Inner == MaxPart + 1
Pseudo == MaxPart + MaxNodes

Layouts == {"pair", "inner", "mixed", "pseudoMid", "innerPseudo", "twoTops"}

\* the node record of one internal node
NodeOf(next, sib, multiple, toplevel, g) ==
    [nextnode |-> next, sibling |-> sib, multiple |-> multiple, toplevel |-> toplevel,
     len |-> 2, len2 |-> 4, r2 |-> g.r2, mass |-> 1, dist |-> g.dist, far |-> g.far,
     inside |-> g.inside, softOpen |-> g.softOpen]

\* the trees walked: a start node holding particles 0 and 1, directly
\* ("pair"), in one inner node ("inner"), particle 1 alone in an inner node
\* ("mixed"), with a pseudo-particle between them ("pseudoMid") or after the
\* inner node ("innerPseudo"); and two start nodes, one particle in each
\* ("twoTops")
TreeOf(layout, toplevel, g) ==
    [NodeList |-> [k \in 0 .. (NODELISTLENGTH - 1) |->
                    IF k = 0 THEN Root
                    ELSE IF k = 1 /\ layout = "twoTops" THEN Inner ELSE -1],
     Nodes |->
        [no \in Root .. (Root + MaxNodes - 1) |->
            IF no = Root
            THEN NodeOf(IF layout \in {"inner", "innerPseudo"} THEN Inner ELSE 0,
                        IF layout = "twoTops" THEN Inner ELSE -1, TRUE, TRUE, g)
            ELSE NodeOf(IF layout \in {"mixed", "twoTops"} THEN 1 ELSE 0,
                        IF layout = "innerPseudo" THEN Pseudo ELSE -1,
                        layout # "mixed", toplevel, g)],
     Nextnode |->
        [i \in 0 .. MaxPart |->
            IF i = 0 THEN (CASE layout \in {"mixed", "twoTops"} -> Inner
                             [] layout = "pseudoMid" -> Pseudo
                             [] OTHER -> 1)
            ELSE IF i = 1 THEN (IF layout = "innerPseudo" THEN Pseudo ELSE -1)
            ELSE IF i = Pseudo - MaxNodes
                 THEN (IF layout = "pseudoMid" THEN 1 ELSE -1)
            ELSE -1]]

\* lines 179-184
gravtree_isactive_AllTypes(i) == TRUE
gravtree_isactive(i) == P_Type[i] # 5

\* lines 296-298: the walk starts below the first node of the node list
StartNode_NotOpened(tree, no) == no
StartNode(tree, no) == tree.Nodes[no].nextnode

\* line 362: only the walk of a local target exports
ShouldExport_AnyMode(mode) == TRUE
ShouldExport(mode) == mode = 0

\* line 432: the Barnes-Hut opening criterion
OpensBarnesHut(nop, ErrTolTheta) == nop.len2 > nop.r2 * ErrTolTheta * ErrTolTheta

\* line 441: the relative opening criterion
OpensRelative(nop, aold) == nop.mass * nop.len2 > nop.r2 * nop.r2 * aold

\* line 293: the short-range cutoff radius All.Rcut[0]
rcut == 1

\* lines 402-427: the node lies outside the cutoff sphere and, on some axis,
\* its centre is further than rcut + 0.5 * len from the target
BeyondCut_NoRadiusTest(nop) ==
    \E k \in 1 .. 3 :
        \/ 2 * nop.dist[k] < -(2 * rcut + nop.len)
        \/ 2 * nop.dist[k] > 2 * rcut + nop.len
BeyondCut(nop) ==
    /\ nop.r2 > rcut * rcut
    /\ \E k \in 1 .. 3 :
        \/ 2 * nop.dist[k] < -(2 * rcut + nop.len)
        \/ 2 * nop.dist[k] > 2 * rcut + nop.len

\* lines 371-494: what the walk does with an internal node: "end" the branch,
\* "open" the node, "skip" to its sibling, or "use" it as one point mass
NodeTest(nop, in) ==
    IF in.mode = 1 /\ nop.toplevel THEN "end"
    ELSE IF ~nop.multiple THEN "open"
    ELSE IF BeyondCut(nop) THEN "skip"
    ELSE IF in.ErrTolTheta # 0 /\ OpensBarnesHut(nop, in.ErrTolTheta) THEN "open"
    ELSE IF in.ErrTolTheta = 0 /\ (OpensRelative(nop, in.aold) \/ nop.inside) THEN "open"
    ELSE IF nop.softOpen THEN "open"
    ELSE "use"

\* lines 498-538: one pairwise interaction; it is accumulated when the
\* distance lies within the short-range table
Interact(st, kind, no, far) ==
    [st EXCEPT !.visited = Append(@, <<kind, no>>),
               !.counted = IF far THEN @ ELSE Append(@, <<kind, no>>),
               !.ninteractions = IF far THEN @ ELSE @ + 1]

\* line 494: a node used as one point mass is left for its sibling
AfterUse_Descend(nop) == nop.nextnode
AfterUse(nop) == nop.sibling

WalkFuel == 2 * (MaxPart + MaxNodes + 2)

\* lines 316-540: the inner loop
RECURSIVE InnerLoop(_, _, _, _, _)
InnerLoop(no, st, tree, in, fuel) ==
    IF no < 0 THEN st
    ELSE IF fuel = 0 THEN [st EXCEPT !.exhausted = TRUE]
    ELSE IF no < MaxPart
    THEN InnerLoop(tree.Nextnode[no],
                   Interact([st EXCEPT !.drifted = @ \cup {no}], "particle", no,
                            no = 1 /\ in.far1),
                   tree, in, fuel - 1)
    ELSE IF no >= MaxPart + MaxNodes
    THEN IF ShouldExport(in.mode)
         THEN IF in.exportOk
              THEN InnerLoop(tree.Nextnode[no - MaxNodes],
                             [st EXCEPT !.exports = Append(@, no)], tree, in, fuel - 1)
              ELSE [st EXCEPT !.exports = Append(@, no), !.ret = -1]
         ELSE InnerLoop(tree.Nextnode[no - MaxNodes], st, tree, in, fuel - 1)
    ELSE LET nop == tree.Nodes[no]
             t == NodeTest(nop, in)
             \* line 388: the nodes that come to the tests on their geometry
             s1 == IF t # "end" /\ nop.multiple
                   THEN [st EXCEPT !.tested = Append(@, no)] ELSE st
         IN  CASE t = "end" -> s1
               [] t = "open" -> InnerLoop(nop.nextnode, s1, tree, in, fuel - 1)
               [] t = "skip" -> InnerLoop(nop.sibling,
                                          [s1 EXCEPT !.dropped = Append(@, no)],
                                          tree, in, fuel - 1)
               [] OTHER -> InnerLoop(AfterUse(nop), Interact(s1, "node", no, nop.far),
                                     tree, in, fuel - 1)

\* lines 314-552: the outer loop over the node list
RECURSIVE OuterLoop(_, _, _, _, _)
OuterLoop(no, listindex, st, tree, in) ==
    IF no < 0 THEN st
    ELSE LET s1 == InnerLoop(no, st, tree, in, WalkFuel) IN
         IF s1.ret = -1 THEN s1
         ELSE IF listindex < NODELISTLENGTH /\ tree.NodeList[listindex] >= 0
              THEN OuterLoop(tree.Nodes[tree.NodeList[listindex]].nextnode,
                             listindex + 1,
                             [s1 EXCEPT !.started = Append(@, tree.NodeList[listindex])],
                             tree, in)
              ELSE s1

\* lines 266-563
force_treeev_shortrange(tree, in) ==
    LET st0 == [visited |-> <<>>, counted |-> <<>>, dropped |-> <<>>, tested |-> <<>>,
                started |-> <<tree.NodeList[0]>>,
                exports |-> <<>>, drifted |-> {}, exhausted |-> FALSE,
                ninteractions |-> 0, ret |-> 0]
        st == OuterLoop(StartNode(tree, tree.NodeList[0]), 1, st0, tree, in)
    IN  IF st.ret = -1 THEN st ELSE [st EXCEPT !.ret = st.ninteractions]

NoWalk ==
    [done |-> FALSE, target |-> -1, visited |-> <<>>, counted |-> <<>>,
     dropped |-> <<>>, tested |-> <<>>, started |-> <<>>, exports |-> <<>>, drifted |-> {}, exhausted |-> FALSE,
     ninteractions |-> 0, ret |-> 0, reduced |-> {}, postprocessed |-> {}]

\* the axis distances tried: the node centre at the target, further than
\* rcut + 0.5 * len on one axis in either direction, and exactly that far on
\* all three
AxisDistances == {<<0, 0, 0>>, <<3, 0, 0>>, <<0, -3, 0>>, <<0, 0, 3>>, <<2, -2, 2>>}

Geometries ==
    [r2 : {1, 4}, dist : AxisDistances, far : BOOLEAN, inside : BOOLEAN,
     softOpen : BOOLEAN]

WalkInputs ==
    [mode : {0, 1}, exportOk : BOOLEAN, ErrTolTheta : {0, 1, 2}, aold : {0, 1},
     far1 : BOOLEAN, Type : {0, 1}]

\* the reduce callback of the tree walk: TREEWALK_REDUCE(A, B) stores the
\* result of the local visit and adds the result of a remote visit
TREEWALK_REDUCE_Assign(A, B, mode) == B
TREEWALK_REDUCE(A, B, mode) == IF mode = "TREEWALK_PRIMARY" THEN B ELSE A + B

\* lines 170-177
gravtree_reduce(place, result, mode) ==
    [GravAccel |-> [k \in 1 .. 3 |->
                        TREEWALK_REDUCE(place.GravAccel[k], result.Acc[k], mode)],
     GravCost |-> TREEWALK_REDUCE(place.GravCost, result.Ninteractions, mode),
     Potential |-> TREEWALK_REDUCE(place.Potential, result.Potential, mode)]

\* lines 554-562: the results a visit hands back
VisitResults ==
    {[Acc |-> <<0, 0, 0>>, Ninteractions |-> 0, Potential |-> 0],
     [Acc |-> <<1, -2, 3>>, Ninteractions |-> 2, Potential |-> -1],
     [Acc |-> <<-1, 1, 0>>, Ninteractions |-> 1, Potential |-> -2]}

\* the ranks a target can be exported to
MaxRemote == 3

\* the values the particle fields hold from the step before
StaleGrav ==
    {[GravAccel |-> <<0, 0, 0>>, GravCost |-> 0, Potential |-> 0],
     [GravAccel |-> <<5, 5, 5>>, GravCost |-> 7, Potential |-> -3]}

\* no reduction under way
ReduceIdle ==
    /\ P_Grav = [GravAccel |-> <<0, 0, 0>>, GravCost |-> 0, Potential |-> 0]
    /\ Results = [local |-> <<>>, remote |-> <<>>, primary |-> FALSE, ghosts |-> {}]

\* the walk at rest
TreeIdle ==
    /\ Tree = TreeOf("pair", TRUE, [r2 |-> 1, dist |-> <<0, 0, 0>>, far |-> FALSE,
                                    inside |-> FALSE, softOpen |-> FALSE])
    /\ P_Type = [i \in AllParts |-> 1]
    /\ WalkIn = [mode |-> 0, exportOk |-> TRUE, ErrTolTheta |-> 0, aold |-> 0,
                 far1 |-> FALSE, Type |-> 1]
    /\ WalkOut = NoWalk

\* gravtree.c at rest, for the specifications of the driver
WalkIdle == TreeIdle /\ ReduceIdle

----------------------------------------------------------------------------
(* cooling.c: the TREECOOL table and the UV background.                      *)
(* A row of the file is its log10(1+z) and its gH0; the other five columns   *)
(* are read and interpolated alongside gH0.  log10(1+z) is held in ticks of  *)
(* the driver's timeline: log10(1/Time) at the tick t is TIMEBASE - t.       *)

\* the most rows of TREECOOL that are read (scaled down)
TABLESIZE == 3
TableRows == 0 .. (TABLESIZE - 1)

\* the static arrays before the first ReadIonizeParams
NoTable == [inlogz |-> [i \in TableRows |-> 0], gH0 |-> [i \in TableRows |-> 0],
            nheattab |-> 0]

\* ReadIonizeParams, lines 806-812: gH0 is cleared, then rows are read until
\* the end of the file or the end of the arrays
ReadRows(file, old) ==
    [inlogz |-> [i \in TableRows |->
                    IF i < Len(file) THEN file[i + 1].logz ELSE old.inlogz[i]],
     gH0 |-> [i \in TableRows |-> IF i < Len(file) THEN file[i + 1].gH0 ELSE 0]]

RECURSIVE CountRows_NoBreak(_, _)
CountRows_NoBreak(g, i) ==
    IF i < TABLESIZE
    THEN (IF g[i] # 0 THEN 1 ELSE 0) + CountRows_NoBreak(g, i + 1)
    ELSE 0

\* lines 818-822
RECURSIVE CountRows(_, _)
CountRows(g, i) ==
    IF i < TABLESIZE /\ g[i] # 0 THEN 1 + CountRows(g, i + 1) ELSE 0

ReadIonizeParams(file, old) ==
    LET t == ReadRows(file, old) IN
    [inlogz |-> t.inlogz, gH0 |-> t.gH0, nheattab |-> CountRows(t.gH0, 0)]

\* struct UVBG after memset(.., 0, ..), and the static initialiser of line 115
ZeroUVBG == [J_UV |-> 0, rates |-> <<0, 0, 0>>]

\* lines 840-841
logzOf(time) == TIMEBASE - time

\* lines 842-849
RECURSIVE FindLow(_, _, _)
FindLow(i, ilow, logz) ==
    IF i < nheattab /\ inlogz[i] < logz THEN FindLow(i + 1, i, logz) ELSE ilow

\* IonizeParamsTable, lines 834-871: the value GlobalUVBG is given.  The six
\* interpolated rates are held as the row and the two weights they are
\* computed from.  With nheattab = 0 the test of line 855 reads inlogz[-1];
\* whatever that read gives, gH0[0] = 0 makes the test true.
IonizeParamsTable(time) ==
    LET logz == logzOf(time)
        ilow == FindLow(0, 0, logz)
    IN  IF nheattab = 0 \/ logz > inlogz[nheattab - 1]
           \/ gH0[ilow] = 0 \/ gH0[ilow + 1] = 0
        THEN ZeroUVBG
        ELSE [J_UV |-> 1,
              rates |-> <<ilow, logz - inlogz[ilow], inlogz[ilow + 1] - logz>>]

\* lines 842-849: the elements of inlogz the loop reads
RECURSIVE LoopReads(_, _)
LoopReads(i, logz) ==
    IF i < nheattab
    THEN {<<"inlogz", i>>} \cup (IF inlogz[i] < logz THEN LoopReads(i + 1, logz) ELSE {})
    ELSE {}

\* IonizeParamsTable, lines 842-868: the elements of inlogz and gH0 it reads.
\* The test of line 855 is evaluated from the left and stops at its first
\* true disjunct; the outcome of a read outside inlogz is not known, so what
\* follows such a read is taken to be evaluated.
IonizeParamsTable_Reads(time) ==
    LET logz == logzOf(time)
        ilow == FindLow(0, 0, logz)
        last == nheattab - 1
        first == IF last \in TableRows THEN logz > inlogz[last] ELSE FALSE
        second == gH0[ilow] = 0
    IN  LoopReads(0, logz)
        \cup {<<"inlogz", ilow>>, <<"inlogz", ilow + 1>>, <<"inlogz", last>>}
        \cup (IF first THEN {} ELSE {<<"gH0", ilow>>})
        \cup (IF first \/ second THEN {} ELSE {<<"gH0", ilow + 1>>})

\* IonizeParams, lines 828-832: the new value of GlobalUVBG
IonizeParams(time, old) ==
    IF CoolingNoPrimordial THEN old ELSE IonizeParamsTable(time)

\* GetParticleUVBG, lines 1045-1058: what *uvbg is given; neutral is the
\* outcome of zreion < z
GetParticleUVBG(neutral, global) ==
    IF UVF_disabled THEN global
    ELSE IF neutral THEN ZeroUVBG ELSE global

\* One access of a function of cooling.c to the globals GlobalUVBG and the
\* rate tables (BetaH0 .. GammaeHep, Tmin, deltaT)
Acc(fn, op, obj) == << [fn |-> fn, op |-> op, obj |-> obj] >>

\* lines 857-868
IonizeParamsTable_Globals == Acc("IonizeParamsTable", "write", "GlobalUVBG")

\* lines 830-831
IonizeParams_Globals ==
    IF CoolingNoPrimordial THEN <<>> ELSE IonizeParamsTable_Globals

GetParticleUVBG_Globals_Swapped(neutral) ==
    IF UVF_disabled \/ ~neutral
    THEN Acc("GetParticleUVBG", "write", "GlobalUVBG")
    ELSE <<>>

\* lines 1047-1057: memcpy reads GlobalUVBG, memset does not
GetParticleUVBG_Globals(neutral) ==
    IF UVF_disabled \/ ~neutral
    THEN Acc("GetParticleUVBG", "read", "GlobalUVBG")
    ELSE <<>>

\* lines 335-344 and 394-396
find_abundances_and_rates_Globals ==
    Acc("find_abundances_and_rates", "read", "ratetables")

\* line 257
solve_equilibrium_temp_Globals == find_abundances_and_rates_Globals

\* lines 474-485
PrimordialCoolingRate_Globals ==
    Acc("PrimordialCoolingRate", "read", "ratetables")
    \o find_abundances_and_rates_Globals

\* lines 413-417
CoolingRateFromU_Globals ==
    solve_equilibrium_temp_Globals \o PrimordialCoolingRate_Globals

\* lines 122 and 141-172
DoCooling_Globals ==
    IF CoolingNoPrimordial THEN <<>> ELSE CoolingRateFromU_Globals

\* lines 209 and 224
GetCoolingTime_Globals ==
    IF CoolingNoPrimordial THEN <<>> ELSE CoolingRateFromU_Globals

\* line 441
AbundanceRatios_Globals == solve_equilibrium_temp_Globals

\* the cooling of one gas particle inside compute_accelerations
CoolingPhase(neutral) ==
    GetParticleUVBG_Globals(neutral) \o DoCooling_Globals
    \o GetCoolingTime_Globals \o AbundanceRatios_Globals

\* the rows of the TREECOOL files of the driver's runs
TreeCoolFiles ==
    { << [logz |-> 0, gH0 |-> 1], [logz |-> TIMEBASE, gH0 |-> 1] >>,
      << [logz |-> 0, gH0 |-> 1], [logz |-> TIMEBASE \div 2, gH0 |-> 2] >> }

\* InitCool, lines 873-914: CoolingOn, whether TreeCoolFile names a file, and
\* the rows of that file
InitCool(CoolingOn, hasFile, treeCool, uvfOff) ==
    /\ CoolingNoPrimordial = (~CoolingOn \/ ~hasFile)
    /\ initCool = [CoolingOn |-> CoolingOn,
                   TreeCoolFile |-> IF hasFile THEN "TREECOOL" ELSE "",
                   filesRead |-> IF CoolingOn /\ hasFile THEN <<"TREECOOL">> ELSE <<>>,
                   exit |-> 0]
    /\ UVF_disabled = uvfOff
    /\ LET t == IF CoolingNoPrimordial THEN NoTable
                ELSE ReadIonizeParams(treeCool, NoTable)
       IN  /\ inlogz = t.inlogz
           /\ gH0 = t.gH0
           /\ nheattab = t.nheattab
    /\ GlobalUVBG = [r \in Ranks |-> IonizeParams(TimeBegin, ZeroUVBG)]
    /\ uvbgLog = [r \in Ranks |-> <<>>]

\* no call of cooling.c is under study
NoCall == [op |-> "none"]
NoResult == [done |-> FALSE, entered |-> FALSE, res |-> <<>>]

\* cooling.c as the driver and the tree walk find it
CoolIdle ==
    /\ InitCool(TRUE, TRUE, << [logz |-> 0, gH0 |-> 1], [logz |-> TIMEBASE, gH0 |-> 1] >>, TRUE)
    /\ coolIn = NoCall
    /\ coolOut = NoResult

----------------------------------------------------------------------------
(* cooling.c: the equilibrium solver.                                        *)
(* Abundances are held in units of nH / NH_UNIT, so that 1.0 is NH_UNIT and  *)
(* YHELIUM is a whole number.  log10 of the temperature is a whole number;   *)
(* the outcome of a convergence test is an argument of the call: convAt is   *)
(* the first iteration at which the test of the loop comes out true.         *)

\* line 35, scaled down
MAXITER == 8
\* line 8 of physconst.h, in percent
HYDROGEN_MASSFRAC == 76
NH_UNIT == 38
\* line 97
YHELIUM == ((100 - HYDROGEN_MASSFRAC) * NH_UNIT) \div (4 * HYDROGEN_MASSFRAC)
\* MakeCoolingTable, line 581, and line 107
Tmin == 1
Tmax == 9

Branch_Strict(logT) ==
    IF logT < Tmin THEN "neutral"
    ELSE IF logT > Tmax THEN "ionized"
    ELSE "iterate"

\* find_abundances_and_rates, lines 296 and 307
Branch(logT) ==
    IF logT <= Tmin THEN "neutral"
    ELSE IF logT >= Tmax THEN "ionized"
    ELSE "iterate"

\* lines 298-303
Neutral ==
    [nH0 |-> NH_UNIT, nHe0 |-> YHELIUM, nHp |-> 0, nHep |-> 0, nHepp |-> 0, ne |-> 0]

\* lines 309-314
Ionized ==
    LET nHp == NH_UNIT
        nHepp == YHELIUM
    IN  [nH0 |-> 0, nHe0 |-> 0, nHp |-> nHp, nHep |-> 0, nHepp |-> nHepp,
         ne |-> nHp + 2 * nHepp]

\* line 346: the photoionization terms gJ*/necgs are taken as zero
NoPhotoTerms(necgsSmall, J_UV) == necgsSmall \/ J_UV = 0

\* line 374: without a UV background one pass is all
BreakAfterOnePass_Never(J_UV) == FALSE
BreakAfterOnePass(J_UV) == J_UV = 0

\* line 372, eqn (38)
Eqn38(y) == y.nHp + y.nHep + 2 * y.nHepp

\* line 381: the tolerance 1.0e-4 on the change of ne, in the model's units
NeTol == 1

\* lines 377-382
Average(ne, neold) == (ne + neold) \div 2
NeConverged(ne, neold) == (IF ne >= neold THEN ne - neold ELSE neold - ne) < NeTol

\* lines 330-387 with the photoionization terms present: the number of
\* iterations of the do-while loop
RECURSIVE AbundanceLoop(_, _, _)
AbundanceLoop(niter, J_UV, convAt) ==
    LET n == niter + 1 IN
    IF BreakAfterOnePass(J_UV) THEN n
    ELSE IF n = convAt THEN n
    ELSE IF n < MAXITER THEN AbundanceLoop(n, J_UV, convAt)
    ELSE n

\* lines 330-387 without them: eqns (33)-(38) give the same collisional
\* abundances in every pass, and ne is averaged with its value before
RECURSIVE CollisionalLoop(_, _, _, _)
CollisionalLoop(niter, J_UV, neold, yIter) ==
    LET n == niter + 1
        ne == Eqn38(yIter)
        nenew == Average(ne, neold)
    IN  IF BreakAfterOnePass(J_UV) THEN [niter |-> n, ne |-> ne]
        ELSE IF NeConverged(nenew, neold) THEN [niter |-> n, ne |-> nenew]
        ELSE IF n < MAXITER THEN CollisionalLoop(n, J_UV, nenew, yIter)
        ELSE [niter |-> n, ne |-> nenew]

\* find_abundances_and_rates, lines 288-397.  yIter is what eqns (33)-(38)
\* give in the last iteration; ne is y->ne on entry; necgsSmall says that
\* nHcgs is so low that necgs = ne * nHcgs stays at or below 1e-25; reads
\* counts the reads of a rate table.
find_abundances_and_rates(logT, J_UV, convAt, yIter, ne, necgsSmall) ==
    LET b == Branch(logT) IN
    IF b = "neutral"
    THEN [y |-> Neutral, niter |-> 0, reads |-> 0, exit |-> 0, branch |-> b]
    ELSE IF b = "ionized"
    THEN [y |-> Ionized, niter |-> 0, reads |-> 0, exit |-> 0, branch |-> b]
    ELSE LET ne0 == IF ne = 0 THEN NH_UNIT ELSE ne
             c == CollisionalLoop(0, J_UV, ne0, yIter)
             n == IF NoPhotoTerms(necgsSmall, J_UV) THEN c.niter
                  ELSE AbundanceLoop(0, J_UV, convAt)
             y == IF NoPhotoTerms(necgsSmall, J_UV) THEN [yIter EXCEPT !.ne = c.ne]
                  ELSE yIter
         IN  IF n >= MAXITER
             THEN [y |-> y, niter |-> n, reads |-> 14 * n, exit |-> 13, branch |-> b]
             ELSE [y |-> y, niter |-> n, reads |-> 14 * n + 6, exit |-> 0, branch |-> b]

\* solve_equilibrium_temp, lines 253-275: the number of iterations
RECURSIVE TempLoop(_, _)
TempLoop(iter, convAt) ==
    LET n == iter + 1 IN
    IF n # convAt /\ n < MAXITER THEN TempLoop(n, convAt) ELSE n

\* solve_equilibrium_temp, lines 243-283: every iteration calls
\* find_abundances_and_rates, whose endrun ends the call
solve_equilibrium_temp(logT, J_UV, convAt, yIter, tempConvAt) ==
    LET fa == find_abundances_and_rates(logT, J_UV, convAt, yIter, 0, FALSE) IN
    IF fa.exit # 0
    THEN [y |-> fa.y, iter |-> 0, exit |-> fa.exit]
    ELSE LET n == TempLoop(0, tempConvAt) IN
         [y |-> fa.y, iter |-> n, exit |-> IF n >= MAXITER THEN 12 ELSE 0]

----------------------------------------------------------------------------
(* cooling.c: GetCoolingTime and DoCooling.                                  *)
(* Energies, and the product ratefact * LambdaNet * dt, are whole numbers.   *)
(* The net rate CoolingRateFromU gives is an argument of the call: below the *)
(* energy uBreak it is rateLow, a constant as PrimordialCoolingRate floors   *)
(* logT at Tmin (lines 474-475), from uBreak on it is rateHigh.              *)

\* CoolingRateFromU, line 407; LambdaNet is what lines 409-421 compute
CoolingRateFromU(LambdaNet) == IF CoolingNoPrimordial THEN 0 ELSE LambdaNet

HeatingOnly_Strict(LambdaNet) == LambdaNet > 0

\* GetCoolingTime, line 228
HeatingOnly(LambdaNet) == LambdaNet >= 0

\* GetCoolingTime, lines 207-236: the cooling time as a fraction, in the
\* units of the caller; uu, density and time are the factors units_to_cgs
GetCoolingTime(u_old, rho, LambdaNet, uu, density, time) ==
    IF CoolingNoPrimordial THEN [num |-> 0, den |-> 1]
    ELSE LET rho_cgs == rho * density
             u_cgs == u_old * uu
             \* nHcgs is rho_cgs in units of PROTONMASS / HYDROGEN_MASSFRAC
             ratefact == rho_cgs
             rate == CoolingRateFromU(LambdaNet)
         IN  IF HeatingOnly(rate) THEN [num |-> 0, den |-> 1]
             ELSE [num |-> u_cgs, den |-> (-ratefact * rate) * time]

\* sqrt(1.1) and 1.1 of lines 147-164, scaled to whole numbers
SqrtGrow == 2
Grow == SqrtGrow * SqrtGrow
\* 1.0e-6 of line 190 is 1 / TolDen
TolDen == 4

\* ratefact * CoolingRateFromU(u, ..) * dt
RateDt(in, u) == IF u < in.uBreak THEN in.rateLow ELSE in.rateHigh

\* u - u_old - ratefact * LambdaNet * dt
Residual(in, u) == u - in.u_old - RateDt(in, u)

\* DoCooling, lines 120-166: up to the first test of a bracketing loop
DoCoolingEnter(in) ==
    IF CoolingNoPrimordial
    THEN [done |-> TRUE, phase |-> "return", u |-> 0, u_lower |-> 0, u_upper |-> 0,
          iter |-> 0, exit |-> 0, steps |-> 0]
    ELSE LET u == in.u_old
             f == Residual(in, u)
         IN  IF f < 0
             THEN [done |-> FALSE, phase |-> "heating", u |-> u,
                   u_lower |-> u \div SqrtGrow, u_upper |-> u * SqrtGrow,
                   iter |-> 0, exit |-> 0, steps |-> 0]
             ELSE IF f > 0
             THEN [done |-> FALSE, phase |-> "cooling", u |-> u,
                   u_lower |-> u \div SqrtGrow, u_upper |-> u * SqrtGrow,
                   iter |-> 0, exit |-> 0, steps |-> 0]
             ELSE [done |-> FALSE, phase |-> "bisect", u |-> u, u_lower |-> u,
                   u_upper |-> u, iter |-> 0, exit |-> 0, steps |-> 0]

\* lines 149 and 161: the test of the bracketing loop the call is in
BracketTest(in, st) ==
    IF st.phase = "heating" THEN Residual(in, st.u_upper) < 0
    ELSE Residual(in, st.u_lower) > 0

\* lines 151-152 and 163-164: the body of the bracketing loop
BracketBody(st) ==
    IF st.phase = "heating"
    THEN [st EXCEPT !.u_upper = st.u_upper * Grow, !.u_lower = st.u_lower * Grow]
    ELSE [st EXCEPT !.u_upper = st.u_upper \div Grow, !.u_lower = st.u_lower \div Grow]

\* line 190: fabs(du / u) > 1.0e-6; 0 / 0 is a NaN and compares false
NotConverged(du, u) ==
    IF u = 0 THEN du # 0 ELSE du * TolDen > u

\* lines 168-199: one iteration of the bisection, and what follows the loop
BisectBody(in, st) ==
    LET u == (st.u_lower + st.u_upper) \div 2
        upper == IF Residual(in, u) > 0 THEN u ELSE st.u_upper
        lower == IF Residual(in, u) > 0 THEN st.u_lower ELSE u
        du == upper - lower
        iter == st.iter + 1
        next == [st EXCEPT !.u = u, !.u_upper = upper, !.u_lower = lower, !.iter = iter]
    IN  IF NotConverged(du, u) /\ iter < MAXITER THEN next
        ELSE IF iter >= MAXITER
        THEN [next EXCEPT !.done = TRUE, !.phase = "endrun", !.exit = 10]
        ELSE [next EXCEPT !.done = TRUE, !.phase = "return"]

\* one test of a loop of DoCooling, and the body or the exit it leads to;
\* steps counts the bodies of the bracketing loop that changed a bound
DoCoolingStepOf(in, st) ==
    IF st.phase \in {"heating", "cooling"}
    THEN IF BracketTest(in, st)
         THEN LET nx == BracketBody(st) IN
              IF nx = st THEN st ELSE [nx EXCEPT !.steps = st.steps + 1]
         ELSE [st EXCEPT !.phase = "bisect"]
    ELSE BisectBody(in, st)

----------------------------------------------------------------------------
(* Initial states *)

SortedLists ==
    {l \in [1 .. OutputListLength -> OutputTimeGrid] :
        \A i \in 1 .. OutputListLength, j \in 1 .. OutputListLength :
            i <= j => l[i] <= l[j]}

InitWith(np, list, tb, ord, count, stale, ti) ==
    /\ NumPart = np
    /\ OutputListTimes = list
    /\ pc = [r \in Ranks |-> "sync"]
    /\ trace = [r \in Ranks |-> <<>>]
    /\ Ti_Current = [r \in Ranks |-> ti]
    /\ Ti_nextoutput = [r \in Ranks |-> find_next_outputtime(ti, list)]
    /\ Time = [r \in Ranks |-> ti]
    /\ stopflag = [r \in Ranks |-> 0]
    /\ SnapshotFileCount = [r \in Ranks |-> 0]
    /\ NumCurrentTiStep = [r \in Ranks |-> 0]
    /\ TimeBin = [r \in Ranks |-> [i \in Parts(r) |-> tb[r][i]]]
    /\ TimeBinCount = count
    /\ TimeBinActive = [r \in Ranks |-> [n \in Bins |-> 0]]
    /\ FirstInTimeBin = [r \in Ranks |-> ListFirst(r, tb[r], ord[r])]
    /\ NextInTimeBin = [r \in Ranks |-> ListNext(r, tb[r], ord[r])]
    /\ FirstActiveParticle = [r \in Ranks |-> -1]
    /\ NextActiveParticle = stale
    /\ Flag_FullStep = [r \in Ranks |-> 0]
    /\ GlobNumForceUpdate = [r \in Ranks |-> 0]
    /\ NumForcesSinceLastDomainDecomp = [r \in Ranks |-> 0]
    /\ snapshots = [r \in Ranks |-> <<>>]
    /\ written = [r \in Ranks |-> {}]
    /\ syncDrifts = [r \in Ranks |-> <<>>]
    /\ walkDrifts = [r \in Ranks |-> {}]
    /\ collectives = [r \in Ranks |-> <<>>]
    /\ exitcode = [r \in Ranks |-> 0]
    /\ seen = FALSE
    /\ stopTi = [r \in Ranks |-> -1]
    /\ dynUpdate = [r \in Ranks |-> NoDynamicUpdate]

\* the start of a run: every rank holds one particle or none, the time is
\* 0, every particle is in bin 0, the lists are in index order
Init ==
    \E list \in SortedLists, np \in [Ranks -> 0 .. 1] :
        /\ WalkIdle
        /\ CoolIdle
        /\ InitWith(np, list,
                 [r \in Ranks |-> [i \in AllParts |-> 0]],
                 [r \in Ranks |-> IndexOrder(r)],
                 [r \in Ranks |-> ListCount(r, [i \in AllParts |-> 0])],
                 [r \in Ranks |-> [i \in 0 .. (np[r] - 1) |-> -1]],
                 0)

\* the inputs of one call of find_next_sync_point_and_drift: rank 0 holds
\* MaxPart particles or none and every other rank one, in any bins and any
\* list order, at any even time;
\* NextActiveParticle is what an earlier step left; TimeBinCount is the length
\* of the bin's list, or differs from it by one in one bin
Orders == {o \in [AllParts -> AllParts] : \A i, j \in AllParts : o[i] = o[j] => i = j}

InitInputs ==
    \E tb \in [Ranks -> [AllParts -> Bins]], ord \in Orders, old \in Orders \cup {<<>>},
       d \in [Ranks -> {-1, 0, 1}], b \in Bins, n0 \in {0, MaxPart},
       ti \in {t \in 0 .. (TIMEBASE - 1) : t % 2 = 0} :
        LET np == [r \in Ranks |-> IF r = 0 THEN n0 ELSE 1]
            count == [r \in Ranks |->
                        [n \in Bins |->
                            Cardinality({i \in 0 .. (np[r] - 1) : tb[r][i] = n})
                            + (IF n = b THEN d[r] ELSE 0)]]
            stale == [r \in Ranks |->
                        [i \in 0 .. (np[r] - 1) |->
                            IF r # 0 \/ old = <<>> THEN -1
                            ELSE LET later == {j \in AllParts : old[j] > old[i]} IN
                                 IF later = {} THEN -1
                                 ELSE CHOOSE j \in later :
                                        \A k \in later : old[j] <= old[k]]]
        IN
        /\ \A r \in Ranks : \A i \in AllParts : i >= np[r] => tb[r][i] = 0
        /\ n0 = 0 => (ord = [i \in AllParts |-> i] /\ old = <<>>)
        /\ \A r \in Ranks : \A n \in Bins : count[r][n] >= 0
        /\ (\A r \in Ranks : d[r] = 0) => b = 0
        /\ WalkIdle
        /\ CoolIdle
        /\ InitWith(np, [k \in 1 .. OutputListLength |-> 3], tb,
                    [r \in Ranks |-> ord], count, stale, ti)

----------------------------------------------------------------------------
(* run(): lines 35-43 *)

\* line 40, the test that ends the run once the stop snapshot is written
StopRequested_OnlyFile(flag) == flag = 1
StopRequested(flag) == flag = 1 \/ flag = 2

FindNextSyncPointAndDrift ==
    /\ \A r \in Ranks : pc[r] = "sync" /\ NumCurrentTiStep[r] < MaxSteps
    \* lines 168-188
    /\ Ti_Current' = MPI_Allreduce_MIN(
                        [r \in Ranks |-> ti_next_kick(TimeBinCount[r], Ti_Current[r])])
    \* lines 190-205
    /\ snapshots' = [r \in Ranks |->
                        SnapshotLoop(SnapshotStart(r), Ti_Current'[r], stopflag[r],
                                     OutputListTimes).snaps]
    /\ Ti_nextoutput' = [r \in Ranks |->
                        SnapshotLoop(SnapshotStart(r), Ti_Current'[r], stopflag[r],
                                     OutputListTimes).nextout]
    /\ SnapshotFileCount' = [r \in Ranks |-> SnapshotFileCount[r] + Len(snapshots'[r])]
    /\ written' = [r \in Ranks |->
                        written[r] \cup {snapshots'[r][k].ti : k \in 1 .. Len(snapshots'[r])}]
    \* lines 207-215
    /\ Time' = Ti_Current'
    \* lines 218-241
    /\ TimeBinActive' = [r \in Ranks |-> MarkActive(Ti_Current'[r])]
    /\ GlobNumForceUpdate' = sumup_large_ints(
                        [r \in Ranks |-> NumForceUpdate(TimeBinActive'[r], TimeBinCount[r])])
    /\ Flag_FullStep' = [r \in Ranks |-> FullStep(GlobNumForceUpdate'[r])]
    /\ NumForcesSinceLastDomainDecomp' =
          [r \in Ranks |-> NumForcesSinceLastDomainDecomp[r] + GlobNumForceUpdate'[r]]
    \* lines 244-264
    /\ FirstActiveParticle' = [r \in Ranks |->
                        BuildActiveList(TimeBinActive'[r], FirstInTimeBin[r],
                                        NextInTimeBin[r], NextActiveParticle[r]).first]
    /\ NextActiveParticle' = [r \in Ranks |->
                        BuildActiveList(TimeBinActive'[r], FirstInTimeBin[r],
                                        NextInTimeBin[r], NextActiveParticle[r]).next]
    \* lines 268-275
    /\ syncDrifts' = [r \in Ranks |->
                        DriftLoop(FirstActiveParticle'[r], <<>>, NextActiveParticle'[r],
                                  Ti_Current'[r], NumPart[r] + 1)]
    /\ walkDrifts' = [r \in Ranks |-> {}]
    \* lines 277-281
    /\ exitcode' = [r \in Ranks |->
                        IF CountsDiffer(GlobNumForceUpdate'[r],
                               sumup_large_ints([q \in Ranks |-> Len(syncDrifts'[q])])[r])
                        THEN 2 ELSE 0]
    /\ collectives' = [r \in Ranks |->
              <<"MPI_Allreduce">>
              \o [k \in 1 .. Len(snapshots'[r]) |-> "savepositions"]
              \o <<"sumup_large_ints", "sumup_large_ints">>]
    /\ trace' = [r \in Ranks |-> <<"find_next_sync_point_and_drift">>]
    /\ UNCHANGED dynUpdate
    \* run(): lines 40-43
    /\ pc' = [r \in Ranks |->
                    IF exitcode'[r] # 0 THEN "endrun"
                    ELSE IF StopRequested(stopflag[r]) THEN "done"
                    ELSE "accel"]
    /\ UNCHANGED walkVars
    /\ uvbgLog' = [r \in Ranks |-> <<>>]
    /\ UNCHANGED << CoolingNoPrimordial, initCool, UVF_disabled, inlogz, gH0, nheattab, GlobalUVBG,
                    coolIn, coolOut >>
    /\ UNCHANGED << NumPart, stopflag, NumCurrentTiStep, TimeBinCount, FirstInTimeBin,
                    NextInTimeBin, TimeBin, OutputListTimes, seen, stopTi >>

----------------------------------------------------------------------------
(* ShouldWeDoDynamicUpdate, lines 286-331 *)

\* the domain decomposition is repeated after this many force computations
\* per particle
TreeDomainUpdateFrequency == 1

\* lines 293-311: the rank's next kick time
RECURSIVE DynKickLoop(_, _, _, _)
DynKickLoop(n, kick, count, ti) ==
    IF n >= TIMEBINS THEN kick
    ELSE IF count[n] # 0
         THEN LET ti_next_for_bin_n ==
                      IF n > 0 THEN (ti \div (2 ^ n)) * (2 ^ n) + (2 ^ n) ELSE ti
              IN  DynKickLoop(n + 1,
                              IF ti_next_for_bin_n < kick THEN ti_next_for_bin_n ELSE kick,
                              count, ti)
         ELSE DynKickLoop(n + 1, kick, count, ti)

\* line 320: the bin is synchronised at the predicted kick time
DynBinDue_Every(n, kick) == TRUE
DynBinDue(n, kick) == kick % (2 ^ n) = 0

\* lines 316-322: the rank's particles that will be active
RECURSIVE DynCountLoop(_, _, _, _)
DynCountLoop(n, num, kick, count) ==
    IF n >= TIMEBINS THEN num
    ELSE DynCountLoop(n + 1, IF DynBinDue(n, kick) THEN num + count[n] ELSE num,
                      kick, count)

\* line 313: the predicted kick time, per rank
PredictedKick ==
    MPI_Allreduce_MIN(
        [r \in Ranks |-> DynKickLoop(0, TIMEBASE, TimeBinCount[r], Ti_Current[r])])

\* lines 316-323: the prediction of the next step's number of forces, per rank
PredictedNumForces ==
    sumup_large_ints(
        [r \in Ranks |->
            DynCountLoop(1, TimeBinCount[r][0], PredictedKick[r], TimeBinCount[r])])

\* lines 327-330
ShouldWeDoDynamicUpdate(r) ==
    IF NumForcesSinceLastDomainDecomp[r] + PredictedNumForces[r]
           >= TreeDomainUpdateFrequency * TotNumPart
    THEN 0 ELSE 1

----------------------------------------------------------------------------
(* run(): lines 44-50, every_timestep_stuff, IonizeParams and                *)
(* compute_accelerations.  The tree walks of the active targets reach some   *)
(* of the rank's particles, and force_treeev_shortrange drifts each particle *)
(* it reaches to All.Ti_Current (gravtree.c line 321).  The domain           *)
(* decomposition is repeated, and the count of forces since the last one     *)
(* starts again, once the count has reached its threshold.                   *)

ComputeAccelerations ==
    /\ \A r \in Ranks : pc[r] = "accel"
    /\ \E reached \in [Ranks -> SUBSET AllParts] :
        /\ \A r \in Ranks : reached[r] \subseteq Parts(r)
        /\ \A r \in Ranks : GlobNumForceUpdate[r] = 0 => reached[r] = {}
        /\ walkDrifts' = [r \in Ranks |-> {<<i, Ti_Current[r]>> : i \in reached[r]}]
    /\ NumForcesSinceLastDomainDecomp' =
          [r \in Ranks |->
              IF NumForcesSinceLastDomainDecomp[r]
                     >= TreeDomainUpdateFrequency * TotNumPart
              THEN 0 ELSE NumForcesSinceLastDomainDecomp[r]]
    /\ trace' = [r \in Ranks |->
                    trace[r] \o <<"every_timestep_stuff", "IonizeParams",
                                  "compute_accelerations">>]
    /\ pc' = [r \in Ranks |-> "advance"]
    /\ UNCHANGED walkVars
    \* line 46, and the cooling of the active gas inside compute_accelerations
    /\ GlobalUVBG' = [r \in Ranks |-> IonizeParams(Time[r], GlobalUVBG[r])]
    /\ \E neutral \in [Ranks -> BOOLEAN] :
        /\ \A r \in Ranks :
              (UVF_disabled \/ FirstActiveParticle[r] = -1) => ~neutral[r]
        /\ uvbgLog' = [r \in Ranks |->
                          IonizeParams_Globals
                          \o (IF FirstActiveParticle[r] # -1
                              THEN CoolingPhase(neutral[r]) ELSE <<>>)]
    /\ UNCHANGED << CoolingNoPrimordial, initCool, UVF_disabled, inlogz, gH0, nheattab,
                    coolIn, coolOut >>
    /\ dynUpdate' = [r \in Ranks |-> NoDynamicUpdate]
    /\ UNCHANGED << NumPart, Ti_Current, Ti_nextoutput, Time, stopflag, SnapshotFileCount,
                    NumCurrentTiStep, TimeBinCount, TimeBinActive, FirstInTimeBin,
                    NextInTimeBin, TimeBin, FirstActiveParticle, NextActiveParticle,
                    Flag_FullStep, GlobNumForceUpdate, OutputListTimes, snapshots,
                    written, syncDrifts, collectives, exitcode, seen, stopTi >>

----------------------------------------------------------------------------
(* run(): lines 53-63, energy_statistics and advance_and_find_timesteps.     *)
(* Every active particle is kicked and gets its new timebin, which is a bin  *)
(* that is synchronised at Ti_Current; the lists and counts of the bins are  *)
(* then rebuilt, in index order.                                             *)

IsActiveParticle(r, i) ==
    \E k \in 1 .. Len(ActiveParticles(r)) : ActiveParticles(r)[k] = i

AdvanceAndFindTimesteps ==
    /\ \A r \in Ranks : pc[r] = "advance"
    /\ \E tb \in [Ranks -> [AllParts -> Bins]] :
        LET new == [r \in Ranks |-> [i \in Parts(r) |-> tb[r][i]]] IN
        /\ \A r \in Ranks : \A i \in AllParts : i \notin Parts(r) => tb[r][i] = 0
        /\ \A r \in Ranks : \A i \in Parts(r) :
              IF IsActiveParticle(r, i)
              THEN TimeBinActive[r][new[r][i]] = 1
              ELSE new[r][i] = TimeBin[r][i]
        /\ TimeBin' = new
        /\ TimeBinCount' = [r \in Ranks |-> ListCount(r, new[r])]
        /\ FirstInTimeBin' = [r \in Ranks |-> ListFirst(r, new[r], IndexOrder(r))]
        /\ NextInTimeBin' = [r \in Ranks |-> ListNext(r, new[r], IndexOrder(r))]
    /\ walkDrifts' = [r \in Ranks |-> {}]
    /\ trace' = [r \in Ranks |->
                    trace[r]
                    \o (IF Flag_FullStep[r] # 0 THEN <<"energy_statistics">> ELSE <<>>)
                    \o <<"advance_and_find_timesteps">>]
    /\ pc' = [r \in Ranks |-> "human"]
    /\ UNCHANGED walkVars
    /\ UNCHANGED coolVars
    /\ UNCHANGED dynUpdate
    /\ UNCHANGED << NumPart, Ti_Current, Ti_nextoutput, Time, stopflag, SnapshotFileCount,
                    NumCurrentTiStep, TimeBinActive, FirstActiveParticle,
                    NextActiveParticle, Flag_FullStep, GlobNumForceUpdate,
                    NumForcesSinceLastDomainDecomp, OutputListTimes, snapshots,
                    written, syncDrifts, collectives, exitcode, seen, stopTi >>

----------------------------------------------------------------------------
(* human_interaction, lines 85-151 *)

\* what rank 0 may find: the ioctl file, the stop file, the CPU-time limit
\* exceeded, the restart file, CpuTimeBetRestartFile elapsed
Findings ==
    [ioctl : BOOLEAN, stop : BOOLEAN, limit : BOOLEAN, restart : BOOLEAN,
     timebet : BOOLEAN]

\* lines 97-146: the stopflag of rank 0
Rank0Stopflag(f) ==
    LET s1 == IF f.stop THEN 1 ELSE 0
        s2 == IF f.limit THEN 2 ELSE s1
        s3 == IF f.restart THEN 3 ELSE s2
    IN  IF f.timebet THEN 3 ELSE s3

human_interaction(f) ==
    MPI_Bcast([r \in Ranks |-> IF r = 0 THEN Rank0Stopflag(f) ELSE 0])

(* run(): lines 65-76 *)
HumanInteraction ==
    /\ \A r \in Ranks : pc[r] = "human"
    /\ \E f \in Findings :
        LET flag == human_interaction(f)
            goon == [r \in Ranks |-> Ti_Current[r] < TIMEBASE /\ 2 * Time[r] <= TimeMax]
        IN
        /\ stopflag' = flag
        /\ seen' = (f.stop \/ f.limit)
        /\ stopTi' = [r \in Ranks |->
                        IF flag[r] = 1 \/ flag[r] = 2 THEN Ti_Current[r] ELSE -1]
        /\ Ti_nextoutput' = [r \in Ranks |->
                                IF flag[r] # 0 THEN Ti_Current[r] ELSE Ti_nextoutput[r]]
        /\ pc' = [r \in Ranks |-> IF goon[r] THEN "sync" ELSE "done"]
        /\ snapshots' = [r \in Ranks |->
              IF goon[r] THEN <<>>
              ELSE << [ti |-> Ti_Current[r], time |-> Time[r],
                       num |-> SnapshotFileCount[r], flag |-> 0] >>]
        /\ written' = [r \in Ranks |->
              IF goon[r] THEN written[r] ELSE written[r] \cup {Ti_Current[r]}]
        /\ SnapshotFileCount' = [r \in Ranks |->
              IF goon[r] THEN SnapshotFileCount[r] ELSE SnapshotFileCount[r] + 1]
        /\ collectives' = [r \in Ranks |->
              <<"MPI_Bcast">> \o (IF goon[r] THEN <<>> ELSE <<"savepositions">>)]
    /\ NumCurrentTiStep' = [r \in Ranks |-> NumCurrentTiStep[r] + 1]
    /\ trace' = [r \in Ranks |-> trace[r] \o <<"human_interaction">>]
    /\ UNCHANGED walkVars
    /\ UNCHANGED coolVars
    /\ UNCHANGED dynUpdate
    /\ UNCHANGED << NumPart, Ti_Current, Time, TimeBinCount, TimeBinActive, FirstInTimeBin,
                    NextInTimeBin, TimeBin, FirstActiveParticle, NextActiveParticle,
                    Flag_FullStep, GlobNumForceUpdate, NumForcesSinceLastDomainDecomp,
                    OutputListTimes, syncDrifts, walkDrifts, exitcode >>

----------------------------------------------------------------------------

Next ==
    \/ FindNextSyncPointAndDrift
    \/ ComputeAccelerations
    \/ AdvanceAndFindTimesteps
    \/ HumanInteraction

Spec == Init /\ [][Next]_vars

\* one call of find_next_sync_point_and_drift on any inputs, and the force
\* computation that follows it
\* the run loop with calls of ShouldWeDoDynamicUpdate.  The function is
\* collective: every rank calls it, before advance_and_find_timesteps has
\* assigned the new timebins or after, at most once between two calls of
\* compute_accelerations.  All it writes are its local variables.
CallShouldWeDoDynamicUpdate ==
    /\ \A r \in Ranks : pc[r] \in {"advance", "sync"} /\ ~dynUpdate[r].called
    /\ \A r \in Ranks : NumCurrentTiStep[r] < MaxSteps
    /\ dynUpdate' = [r \in Ranks |->
                        [called |-> TRUE, ret |-> ShouldWeDoDynamicUpdate(r),
                         ti_next_kick_global |-> PredictedKick[r],
                         numforces |-> PredictedNumForces[r],
                         TimeBinCount |-> TimeBinCount[r]]]
    /\ UNCHANGED << NumPart, pc, trace, Ti_Current, Ti_nextoutput, Time, stopflag,
                    SnapshotFileCount, NumCurrentTiStep, TimeBinCount, TimeBinActive,
                    FirstInTimeBin, NextInTimeBin, TimeBin, FirstActiveParticle,
                    NextActiveParticle, Flag_FullStep, GlobNumForceUpdate,
                    NumForcesSinceLastDomainDecomp, OutputListTimes, snapshots, written,
                    syncDrifts, walkDrifts, collectives, exitcode, seen, stopTi >>
    /\ UNCHANGED walkVars
    /\ UNCHANGED coolVars

NextDynamic == Next \/ CallShouldWeDoDynamicUpdate

SpecDynamic == Init /\ [][NextDynamic]_vars

NextInputs ==
    \/ FindNextSyncPointAndDrift
    \/ ComputeAccelerations

SpecInputs == InitInputs /\ [][NextInputs]_vars

\* the run of the main loop under every configuration of cooling.c: cooling
\* on or off, with or without a TREECOOL file, with or without the UV
\* fluctuation table; every rank holds one particle
InitUVBG ==
    \E CoolingOn \in BOOLEAN, hasFile \in BOOLEAN, treeCool \in TreeCoolFiles,
       uvfOff \in BOOLEAN :
        /\ ~(CoolingOn /\ hasFile) =>
                treeCool = << [logz |-> 0, gH0 |-> 1], [logz |-> TIMEBASE, gH0 |-> 1] >>
        /\ WalkIdle
        /\ InitCool(CoolingOn, hasFile, treeCool, uvfOff)
        /\ coolIn = NoCall
        /\ coolOut = NoResult
        /\ InitWith([r \in Ranks |-> 1], [k \in 1 .. OutputListLength |-> 3],
                 [r \in Ranks |-> [i \in AllParts |-> 0]],
                 [r \in Ranks |-> IndexOrder(r)],
                 [r \in Ranks |-> ListCount(r, [i \in AllParts |-> 0])],
                 [r \in Ranks |-> [i \in 0 .. 0 |-> -1]],
                 0)

SpecUVBG == InitUVBG /\ [][Next]_vars

----------------------------------------------------------------------------
(* gravity_tree(): lines 93-158.  treewalk_run walks the tree once for every  *)
(* target that gravtree_isactive admits (mode 0), or for a target imported    *)
(* from another rank (mode 1); a local walk that did not run out of export    *)
(* space is reduced into its target and post-processed.                       *)

\* the run.c state at rest, for the specifications of gravtree.c
DriverIdle ==
    InitWith([r \in Ranks |-> 0], [k \in 1 .. OutputListLength |-> -1],
             [r \in Ranks |-> [i \in AllParts |-> 0]],
             [r \in Ranks |-> <<>>],
             [r \in Ranks |-> [n \in Bins |-> 0]],
             [r \in Ranks |-> <<>>], 0)

InitWalk ==
    \E layout \in Layouts, g \in Geometries, toplevel \in BOOLEAN, in \in WalkInputs,
       types \in [{0, 1} -> {0, 1, 5}] :
        /\ in.exportOk \/ (in.mode = 0 /\ layout \in {"pseudoMid", "innerPseudo"})
        /\ in.ErrTolTheta # 0 => (in.aold = 1 /\ ~g.inside)
        /\ g.far => g.dist = <<2, -2, 2>>
        /\ layout = "twoTops" => (in.mode = 1 /\ toplevel)
        /\ in.mode = 0 => in.Type = 1
        /\ types[0] # 1 /\ types[1] # 0
        /\ DriverIdle
        /\ CoolIdle
        /\ ReduceIdle
        /\ Tree = TreeOf(layout, toplevel, g)
        /\ P_Type = [i \in AllParts |-> IF i \in {0, 1} THEN types[i] ELSE 1]
        /\ WalkIn = in
        /\ WalkOut = NoWalk

GravityTree ==
    /\ ~WalkOut.done
    /\ \E i \in {0, 1} :
        /\ WalkIn.mode = 0 => gravtree_isactive(i)
        /\ WalkIn.mode = 1 => i = 0
        /\ LET target == IF WalkIn.mode = 0 THEN i ELSE -1
               in == IF WalkIn.mode = 0 THEN [WalkIn EXCEPT !.Type = P_Type[i]] ELSE WalkIn
               st == force_treeev_shortrange(Tree, in)
               local == IF WalkIn.mode = 0 /\ st.ret # -1 THEN {target} ELSE {}
           IN  WalkOut' = [done |-> TRUE, target |-> target, visited |-> st.visited,
                           counted |-> st.counted, dropped |-> st.dropped,
                           tested |-> st.tested, started |-> st.started,
                           exports |-> st.exports, drifted |-> st.drifted,
                           exhausted |-> st.exhausted,
                           ninteractions |-> st.ninteractions, ret |-> st.ret,
                           reduced |-> local, postprocessed |-> local]
    /\ UNCHANGED << Tree, P_Type, WalkIn, P_Grav, Results >>
    /\ UNCHANGED driverVars
    /\ UNCHANGED coolVars

NextWalk == GravityTree

SpecWalk == InitWalk /\ [][NextWalk]_vars

----------------------------------------------------------------------------
(* gravtree.c: the reductions of one target whose walk was one local visit   *)
(* and the visits on the ranks it was exported to.  The engine reduces the   *)
(* local result right after the local visit and the remote results as they   *)
(* come back, one call of gravtree_reduce at a time.                         *)

InitReduce ==
    \E stale \in StaleGrav, local \in VisitResults,
       remote \in UNION {[1 .. n -> VisitResults] : n \in 0 .. MaxRemote} :
        /\ DriverIdle
        /\ CoolIdle
        /\ TreeIdle
        /\ P_Grav = stale
        /\ Results = [local |-> <<local>>, remote |-> remote, primary |-> FALSE,
                      ghosts |-> {}]

ReducePrimary ==
    /\ Len(Results.local) = 1
    /\ ~Results.primary
    /\ P_Grav' = gravtree_reduce(P_Grav, Results.local[1], "TREEWALK_PRIMARY")
    /\ Results' = [Results EXCEPT !.primary = TRUE]
    /\ UNCHANGED << Tree, P_Type, WalkIn, WalkOut >>
    /\ UNCHANGED driverVars
    /\ UNCHANGED coolVars

ReduceGhost ==
    /\ Results.primary
    /\ \E k \in DOMAIN Results.remote \ Results.ghosts :
        /\ P_Grav' = gravtree_reduce(P_Grav, Results.remote[k], "TREEWALK_GHOSTS")
        /\ Results' = [Results EXCEPT !.ghosts = @ \cup {k}]
    /\ UNCHANGED << Tree, P_Type, WalkIn, WalkOut >>
    /\ UNCHANGED driverVars
    /\ UNCHANGED coolVars

NextReduce == ReducePrimary \/ ReduceGhost

SpecReduce == InitReduce /\ [][NextReduce]_vars

----------------------------------------------------------------------------
(* cooling.c: one call of a function of the solver, on any arguments *)

\* the iterations at which a convergence test may first come out true;
\* MAXITER + 1 stands for never within MAXITER iterations
ConvergeAt == {1, 2, MAXITER - 1, MAXITER, MAXITER + 1}

\* the TREECOOL files: up to TABLESIZE + 1 rows of ascending log10(1+z),
\* with gH0 zero or not
TreeCoolRows ==
    UNION {[1 .. n -> {0, 1, 2}] : n \in 0 .. (TABLESIZE + 1)}

\* what eqns (33)-(38) give for a half ionized gas
HalfIonized ==
    [nH0 |-> NH_UNIT \div 2, nHe0 |-> YHELIUM, nHp |-> NH_UNIT \div 2, nHep |-> 0,
     nHepp |-> 0, ne |-> NH_UNIT \div 2]

CoolCalls ==
    {[op |-> "ReadIonizeParams", file |-> [i \in 1 .. Len(g) |-> [logz |-> i, gH0 |-> g[i]]]] :
        g \in TreeCoolRows}
    \cup {[op |-> "IonizeParamsTable", time |-> t,
           file |-> [i \in 1 .. Len(g) |-> [logz |-> base + 2 * (i - 1), gH0 |-> g[i]]]] :
            t \in 0 .. TIMEBASE, base \in {0, 2},
            g \in UNION {[1 .. n -> {0, 1}] : n \in 0 .. TABLESIZE}}
    \cup [op : {"find_abundances_and_rates"},
          logT : {Tmin - 1, Tmin, Tmin + 1, Tmax - 1, Tmax, Tmax + 1},
          J_UV : {0, 1}, convAt : ConvergeAt, ne : {0, NH_UNIT \div 2},
          necgsSmall : BOOLEAN]
    \cup [op : {"solve_equilibrium_temp"}, logT : {Tmin, Tmin + 1}, J_UV : {0, 1},
          convAt : {1, MAXITER}, tempConvAt : ConvergeAt]
    \cup [op : {"IonizeParams"}, time : {0, TIMEBASE \div 2, TIMEBASE}]
    \cup [op : {"GetCoolingTime"}, u_old : 0 .. 2, rho : 1 .. 2, LambdaNet : -2 .. 2,
          uu : {1, 2}, density : {1, 2}, time : {1, 3}]
    \cup [op : {"DoCooling"}, u_old : {0, 4, 16, 20}, rateLow : {-32, -4, 0, 4},
          rateHigh : {-32, -4, 0, 4}, uBreak : {2, 8}]

\* InitCool with cooling on or off and with or without a TREECOOL file, whose
\* rows are those of the call of IonizeParamsTable under study
InitCalls ==
    \E CoolingOn \in BOOLEAN, hasFile \in BOOLEAN, call \in CoolCalls :
        /\ ~(CoolingOn /\ hasFile) =>
                call.op \in {"GetCoolingTime", "DoCooling", "IonizeParams"}
        /\ ~CoolingOn => hasFile
        /\ DriverIdle
        /\ WalkIdle
        /\ InitCool(CoolingOn, hasFile,
                    IF call.op = "IonizeParamsTable" THEN call.file
                    ELSE << [logz |-> 0, gH0 |-> 1], [logz |-> TIMEBASE, gH0 |-> 1] >>,
                    TRUE)
        /\ coolIn = call
        /\ coolOut = NoResult

Idle(op) == coolIn.op = op /\ ~coolOut.entered

Result(res) == [done |-> TRUE, entered |-> TRUE, res |-> res]

Call_ReadIonizeParams ==
    /\ Idle("ReadIonizeParams")
    /\ LET t == ReadIonizeParams(coolIn.file,
                    [inlogz |-> inlogz, gH0 |-> gH0, nheattab |-> nheattab])
       IN  /\ inlogz' = t.inlogz
           /\ gH0' = t.gH0
           /\ nheattab' = t.nheattab
           /\ coolOut' = Result(t)
    /\ UNCHANGED << CoolingNoPrimordial, initCool, UVF_disabled, GlobalUVBG, uvbgLog, coolIn >>
    /\ UNCHANGED driverVars
    /\ UNCHANGED walkVars

Call_IonizeParamsTable ==
    /\ Idle("IonizeParamsTable")
    /\ GlobalUVBG' = [r \in Ranks |-> IonizeParamsTable(coolIn.time)]
    /\ coolOut' = Result([reads |-> IonizeParamsTable_Reads(coolIn.time)])
    /\ UNCHANGED << CoolingNoPrimordial, initCool, UVF_disabled, inlogz, gH0, nheattab,
                    uvbgLog, coolIn >>
    /\ UNCHANGED driverVars
    /\ UNCHANGED walkVars

\* IonizeParams(All.Time), as run() calls it
Call_IonizeParams ==
    /\ Idle("IonizeParams")
    /\ GlobalUVBG' = [r \in Ranks |-> IonizeParams(coolIn.time, GlobalUVBG[r])]
    /\ coolOut' = Result([before |-> GlobalUVBG])
    /\ UNCHANGED << CoolingNoPrimordial, initCool, UVF_disabled, inlogz, gH0, nheattab,
                    uvbgLog, coolIn >>
    /\ UNCHANGED driverVars
    /\ UNCHANGED walkVars

Call_find_abundances_and_rates ==
    /\ Idle("find_abundances_and_rates")
    /\ coolOut' = Result(find_abundances_and_rates(coolIn.logT, coolIn.J_UV,
                                                   coolIn.convAt, HalfIonized,
                                                   coolIn.ne, coolIn.necgsSmall))
    /\ UNCHANGED << CoolingNoPrimordial, initCool, UVF_disabled, inlogz, gH0, nheattab, GlobalUVBG,
                    uvbgLog, coolIn >>
    /\ UNCHANGED driverVars
    /\ UNCHANGED walkVars

Call_solve_equilibrium_temp ==
    /\ Idle("solve_equilibrium_temp")
    /\ coolOut' = Result(solve_equilibrium_temp(coolIn.logT, coolIn.J_UV, coolIn.convAt,
                                                HalfIonized, coolIn.tempConvAt))
    /\ UNCHANGED << CoolingNoPrimordial, initCool, UVF_disabled, inlogz, gH0, nheattab, GlobalUVBG,
                    uvbgLog, coolIn >>
    /\ UNCHANGED driverVars
    /\ UNCHANGED walkVars

Call_GetCoolingTime ==
    /\ Idle("GetCoolingTime")
    /\ coolOut' = Result(GetCoolingTime(coolIn.u_old, coolIn.rho, coolIn.LambdaNet,
                                        coolIn.uu, coolIn.density, coolIn.time))
    /\ UNCHANGED << CoolingNoPrimordial, initCool, UVF_disabled, inlogz, gH0, nheattab, GlobalUVBG,
                    uvbgLog, coolIn >>
    /\ UNCHANGED driverVars
    /\ UNCHANGED walkVars

\* DoCooling up to its first loop test
Call_DoCooling ==
    /\ Idle("DoCooling")
    /\ LET st == DoCoolingEnter(coolIn) IN
       coolOut' = [done |-> st.done, entered |-> TRUE, res |-> st]
    /\ UNCHANGED << CoolingNoPrimordial, initCool, UVF_disabled, inlogz, gH0, nheattab, GlobalUVBG,
                    uvbgLog, coolIn >>
    /\ UNCHANGED driverVars
    /\ UNCHANGED walkVars

\* DoCooling from one loop test to the next, or to its return or endrun
DoCoolingStep ==
    /\ coolIn.op = "DoCooling"
    /\ coolOut.entered
    /\ ~coolOut.done
    /\ LET st == DoCoolingStepOf(coolIn, coolOut.res) IN
       coolOut' = [done |-> st.done, entered |-> TRUE, res |-> st]
    /\ UNCHANGED << CoolingNoPrimordial, initCool, UVF_disabled, inlogz, gH0, nheattab, GlobalUVBG,
                    uvbgLog, coolIn >>
    /\ UNCHANGED driverVars
    /\ UNCHANGED walkVars

NextCalls ==
    \/ Call_ReadIonizeParams
    \/ Call_IonizeParamsTable
    \/ Call_IonizeParams
    \/ Call_find_abundances_and_rates
    \/ Call_solve_equilibrium_temp
    \/ Call_GetCoolingTime
    \/ Call_DoCooling
    \/ DoCoolingStep

SpecCalls == InitCalls /\ [][NextCalls]_vars

----------------------------------------------------------------------------
(* Properties *)

\* find_next_sync_point_and_drift has been called on rank r
Called(r) == trace[r] # <<>>

\* the integer times of the output list entries within [TimeBegin, TimeMax]
OutputTis ==
    {TimeToTi(OutputListTimes[k]) :
        k \in {j \in 1 .. Len(OutputListTimes) :
                  OutputListTimes[j] >= TimeBegin /\ OutputListTimes[j] <= TimeMax}}

\* C1: no listed output time is skipped.  On every rank, a snapshot with
\* Ti_Current = ti has been written for every output entry in range whose
\* integer time ti the rank's Ti_Current has passed, and, once
\* find_next_sync_point_and_drift has returned, for every ti it has reached.
C1_NoOutputSkipped ==
    \A r \in Ranks : \A ti \in OutputTis :
        (ti < Ti_Current[r] \/ (ti = Ti_Current[r] /\ Called(r))) => ti \in written[r]

\* a kick has jumped over the output tick 1, which was written, and a forced
\* snapshot (stopflag 3) is pending as well
C1_Witness ==
    \E r \in Ranks :
        /\ 1 \in OutputTis /\ 1 \in written[r]
        /\ Ti_Current[r] > 1
        /\ stopflag[r] = 3

\* the due time of bin n at time ti: ti itself for bin 0, else the smallest
\* multiple of 2^n strictly greater than ti
due(n, ti) ==
    IF n = 0 THEN ti
    ELSE Min({m \in (ti + 1) .. (ti + 2 ^ n) : m % (2 ^ n) = 0})

DueTimes ==
    UNION {{due(n, Ti_Current[r]) : n \in {b \in Bins : TimeBinCount[r][b] > 0}} :
              r \in Ranks}

\* C2: find_next_sync_point_and_drift leaves Ti_Current, on every rank, at the
\* minimum over all ranks and populated bins of the bin's due time, and at
\* TIMEBASE when no bin is populated on any rank.
C2_NextKickIsMinDue ==
    [][(\A r \in Ranks : pc[r] = "sync")
         => \A r \in Ranks :
                Ti_Current'[r] = IF DueTimes = {} THEN TIMEBASE ELSE Min(DueTimes)]_vars

\* after a call, a populated bin is not yet due: the minimum was that of a
\* lower bin on another rank
C2_Witness ==
    \E r, q \in Ranks : \E n \in Bins :
        /\ pc[r] = "accel" /\ r # q
        /\ TimeBinCount[q][n] > 0 /\ n > 0
        /\ Ti_Current[r] > 0 /\ Ti_Current[r] % (2 ^ n) # 0

\* C3: after every call TimeBinActive[0] = 1 and, for n > 0, TimeBinActive[n]
\* = 1 exactly when 2^n divides Ti_Current; an active particle of bin n > 0
\* is kicked at a multiple of 2^n.
C3_ActiveBinsDivideTime ==
    \A r \in Ranks :
        Called(r) =>
            /\ TimeBinActive[r][0] = 1
            /\ \A n \in 1 .. (TIMEBINS - 1) :
                /\ TimeBinActive[r][n] \in {0, 1}
                /\ TimeBinActive[r][n] = 1 <=> Ti_Current[r] % (2 ^ n) = 0
            /\ pc[r] \in {"accel", "advance"} =>
                \A k \in 1 .. Len(ActiveParticles(r)) :
                    Ti_Current[r] % (2 ^ TimeBin[r][ActiveParticles(r)[k]]) = 0

\* a call has left the highest bin inactive and a particle of bin 1 active
C3_Witness ==
    \E r \in Ranks :
        /\ pc[r] = "accel"
        /\ TimeBinActive[r][TIMEBINS - 1] = 0
        /\ \E k \in 1 .. Len(ActiveParticles(r)) : TimeBin[r][ActiveParticles(r)[k]] = 1

\* the particles of bin n's list on rank r
BinList(r, n) == ListOf(FirstInTimeBin[r][n], NextInTimeBin[r], NumPart[r] + 1)

RECURSIVE ActiveBinLists(_, _)
ActiveBinLists(r, n) ==
    IF n >= TIMEBINS THEN <<>>
    ELSE (IF TimeBinActive[r][n] = 1 THEN BinList(r, n) ELSE <<>>)
         \o ActiveBinLists(r, n + 1)

\* C4: after a call the active list holds the particles of the lists of the
\* active bins, each once, in ascending bin order and in each list's order,
\* and ends with -1; it is empty exactly when no active bin holds a particle.
C4_ActiveListIsConcatenation ==
    \A r \in Ranks :
        Called(r) =>
            LET act == ActiveParticles(r) IN
            /\ act = ActiveBinLists(r, 0)
            /\ \A j, k \in 1 .. Len(act) : act[j] = act[k] => j = k
            /\ Len(act) > 0 => NextActiveParticle[r][act[Len(act)]] = -1
            /\ FirstActiveParticle[r] = -1
                  <=> \A n \in Bins : TimeBinActive[r][n] = 1 => FirstInTimeBin[r][n] = -1

\* rank 0's active list runs against the index order
C4_Witness ==
    /\ Called(0)
    /\ Len(ActiveParticles(0)) = MaxPart
    /\ ActiveParticles(0)[1] > ActiveParticles(0)[MaxPart]

RECURSIVE ActiveCount(_, _)
ActiveCount(r, n) ==
    IF n < 0 THEN 0
    ELSE (IF TimeBinActive[r][n] = 1 THEN TimeBinCount[r][n] ELSE 0)
         + ActiveCount(r, n - 1)

\* the sum over all ranks of TimeBinCount over the active bins
ActiveCountGlobal == SumRanks([r \in Ranks |-> ActiveCount(r, TIMEBINS - 1)], NTask - 1)

\* the sum over all ranks of the number of particles drifted
DriftedGlobal == SumRanks([r \in Ranks |-> Len(syncDrifts[r])], NTask - 1)

ListsMatchCounts ==
    \A r \in Ranks : \A n \in Bins : Len(BinList(r, n)) = TimeBinCount[r][n]

\* C5: a call ends the run with code 2 exactly when the global number of
\* drifted particles differs from the global TimeBinCount of the active bins,
\* and never when every bin's list has TimeBinCount[n] members.
C5_FatalExactlyOnMismatch ==
    \A r \in Ranks :
        Called(r) =>
            /\ exitcode[r] = 2 <=> DriftedGlobal # ActiveCountGlobal
            /\ pc[r] = "endrun" <=> exitcode[r] = 2
            /\ exitcode[r] \in {0, 2}
            /\ ListsMatchCounts => exitcode[r] = 0

\* the run was ended: fewer particles were drifted than counted
C5_Witness ==
    \A r \in Ranks : pc[r] = "endrun" /\ DriftedGlobal < ActiveCountGlobal

Occurrences(seq, x) == Cardinality({k \in 1 .. Len(seq) : seq[k] = x})

C7_FullStepFlag ==
    \A r \in Ranks :
        Called(r) =>
            /\ Flag_FullStep[r] \in {0, 1}
            /\ Flag_FullStep[r] = 1 <=> ActiveCountGlobal >= TotNumPart

\* a full step in which the count just reaches the particle number
C7_Witness ==
    \A r \in Ranks :
        Called(r) /\ Flag_FullStep[r] = 1 /\ ActiveCountGlobal = TotNumPart
                  /\ exitcode[r] = 0

\* C8, as amended: human_interaction runs only as the last call of an
\* iteration, right after advance_and_find_timesteps; once it has returned 1
\* or 2 the next call of find_next_sync_point_and_drift writes a snapshot at
\* the Ti_Current of the detection first, and run() is left without another
\* compute_accelerations or advance_and_find_timesteps.
C8_StopAtStepBoundary ==
    \A r \in Ranks :
        /\ \A k \in 1 .. Len(trace[r]) :
            trace[r][k] = "human_interaction"
                => k = Len(trace[r]) /\ k > 1
                   /\ trace[r][k - 1] = "advance_and_find_timesteps"
        /\ stopTi[r] >= 0 =>
            \/ pc[r] = "sync" /\ trace[r][Len(trace[r])] = "human_interaction"
            \/ /\ pc[r] = "done"
               /\ snapshots[r] # <<>> /\ snapshots[r][1].ti = stopTi[r]
               /\ \/ trace[r] = <<"find_next_sync_point_and_drift">>
                  \/ trace[r][Len(trace[r])] = "human_interaction"

\* the stop took effect in the next call of find_next_sync_point_and_drift
C8_Witness ==
    \A r \in Ranks :
        /\ pc[r] = "done" /\ stopflag[r] \in {1, 2}
        /\ trace[r] = <<"find_next_sync_point_and_drift">>
        /\ stopTi[r] < TIMEBASE

\* C8, as claimed: the snapshot at the Ti_Current of the detection is the
\* final one, the last that run() writes.
C8_StopSnapshotIsFinal ==
    \A r \in Ranks :
        (stopTi[r] >= 0 /\ pc[r] = "done")
            => /\ snapshots[r] # <<>>
               /\ snapshots[r][Len(snapshots[r])].ti = stopTi[r]

\* C9: when rank 0 finds the stop file or the CPU-time limit exceeded, run()
\* returns within the next loop iteration: no force computation follows.
C9_StopEndsRun ==
    \A r \in Ranks : seen => pc[r] \in {"sync", "done"}

\* C10: all ranks hold the same Ti_Current, TimeBinActive, Flag_FullStep,
\* Ti_nextoutput and stopflag, have written the same number of snapshots, are
\* at the same place of run() and entered the same collectives.
C10_RanksAgree ==
    \A r, q \in Ranks :
        /\ Ti_Current[r] = Ti_Current[q]
        /\ TimeBinActive[r] = TimeBinActive[q]
        /\ Flag_FullStep[r] = Flag_FullStep[q]
        /\ Ti_nextoutput[r] = Ti_nextoutput[q]
        /\ stopflag[r] = stopflag[q]
        /\ SnapshotFileCount[r] = SnapshotFileCount[q]
        /\ pc[r] = pc[q]
        /\ collectives[r] = collectives[q]

\* the ranks populate different bins, time has advanced, snapshots were
\* written and a forced snapshot is pending
C10_Witness ==
    \E r, q \in Ranks :
        /\ TimeBinCount[r] # TimeBinCount[q]
        /\ Ti_Current[r] > 0
        /\ SnapshotFileCount[r] > 1
        /\ stopflag[q] = 3

\* the internal nodes the walk used as one point mass, the particles it
\* interacted with
UsedNodes == {WalkOut.visited[k][2] :
                 k \in {j \in 1 .. Len(WalkOut.visited) : WalkOut.visited[j][1] = "node"}}

VisitedParticles ==
    {WalkOut.visited[k][2] :
        k \in {j \in 1 .. Len(WalkOut.visited) : WalkOut.visited[j][1] = "particle"}}

\* the tree is one start node that holds particles 0 and 1 and nothing else
IsPairTree ==
    /\ Tree.Nodes[Root].nextnode = 0
    /\ Tree.Nextnode[0] = 1
    /\ Tree.Nextnode[1] = -1

\* a pseudo-particle is linked into the tree
HasPseudo == \E i \in DOMAIN Tree.Nextnode : Tree.Nextnode[i] = Pseudo

\* C11: under the Barnes-Hut criterion (ErrTolTheta # 0) the walk never uses
\* a multi-particle node exactly at the threshold len^2 = r^2 * ErrTolTheta^2
\* as one point mass: it descends into it.
C11_ThresholdNodeOpened ==
    (WalkOut.done /\ WalkIn.ErrTolTheta # 0) =>
        \A no \in UsedNodes :
            Tree.Nodes[no].len2 # Tree.Nodes[no].r2 * WalkIn.ErrTolTheta * WalkIn.ErrTolTheta

\* C12: for the tree of one start node holding two particles the walk of
\* either particle interacts with particle 0 and particle 1 individually and
\* with no node, whatever ErrTolTheta, the opening criterion and the node's
\* geometry are; an interaction is accumulated unless it lies beyond the
\* short-range table.
C12_PairTreeIsDirectSum ==
    (WalkOut.done /\ IsPairTree) =>
        /\ WalkOut.visited = << <<"particle", 0>>, <<"particle", 1>> >>
        /\ WalkOut.exports = <<>>
        /\ WalkOut.ninteractions = IF WalkIn.far1 THEN 1 ELSE 2
        /\ WalkOut.ret = WalkOut.ninteractions

\* particle 1 walked the pair tree under the Barnes-Hut criterion, with a
\* start node that the criterion would accept as a point mass
C12_Witness ==
    /\ WalkOut.done /\ IsPairTree /\ WalkOut.target = 1
    /\ WalkIn.ErrTolTheta = 2
    /\ NodeTest(Tree.Nodes[Root], WalkIn) = "use"

\* C13, as amended: the walk of a local target (mode 0) registers every
\* pseudo-particle it reaches for export and never interacts with it; it
\* returns -1 at once exactly when treewalk_export_particle returned -1, and
\* otherwise goes on with the node after the pseudo-particle; the walk of an
\* imported target (mode 1) registers no export.
C13_ExportOnlyLocal ==
    WalkOut.done =>
        /\ WalkIn.mode = 1 => WalkOut.exports = <<>>
        /\ (WalkIn.mode = 0 /\ HasPseudo) => WalkOut.exports = <<Pseudo>>
        /\ \A k \in 1 .. Len(WalkOut.visited) : WalkOut.visited[k][2] < Pseudo
        /\ WalkOut.ret = -1 <=> (WalkOut.exports # <<>> /\ ~WalkIn.exportOk)
        /\ (WalkIn.mode = 0 /\ WalkIn.exportOk /\ Tree.Nextnode[Pseudo - MaxNodes] = 1)
              => 1 \in VisitedParticles

\* a local walk exported the pseudo-particle and went on to particle 1
C13_Witness ==
    /\ WalkOut.done /\ WalkIn.mode = 0
    /\ WalkOut.exports = <<Pseudo>>
    /\ WalkOut.ret >= 0
    /\ WalkOut.visited = << <<"particle", 0>>, <<"particle", 1>> >>

\* C13, as claimed: a local walk that registers an export returns early.
C13_ExportReturnsEarly ==
    (WalkOut.done /\ WalkIn.mode = 0 /\ WalkOut.exports # <<>>) => WalkOut.ret = -1

\* C14, as amended: gravtree_isactive(i) is false exactly when P[i].Type is
\* 5, so no type-5 particle is a walk target, is reduced into or is
\* post-processed; the walk itself applies no type test to the particles it
\* meets: every particle of the pair tree is interacted with, of type 5 or not.
C14_TracersAreNoTargets ==
    /\ \A i \in AllParts : gravtree_isactive(i) <=> P_Type[i] # 5
    /\ WalkOut.done =>
        /\ WalkOut.target >= 0 => P_Type[WalkOut.target] # 5
        /\ WalkIn.Type # 5
        /\ \A i \in WalkOut.reduced \cup WalkOut.postprocessed : P_Type[i] # 5
        /\ IsPairTree => VisitedParticles = {0, 1}

\* the walk of particle 0 interacted with particle 1, which is of type 5
C14_Witness ==
    /\ WalkOut.done /\ WalkOut.target = 0
    /\ P_Type[1] = 5
    /\ 1 \in VisitedParticles
    /\ WalkOut.reduced = {0}

\* C14, as claimed: no type-5 particle takes part in a pairwise interaction
\* of another particle's walk.
C14_TracersExcluded ==
    WalkOut.done => \A i \in VisitedParticles : P_Type[i] # 5

\* the writes of the current loop iteration to obj
WritesTo(r, obj) ==
    {k \in 1 .. Len(uvbgLog[r]) : uvbgLog[r][k].op = "write" /\ uvbgLog[r][k].obj = obj}

\* the current loop iteration of rank r has gone through compute_accelerations
ReachedAccel(r) == \E k \in 1 .. Len(trace[r]) : trace[r][k] = "compute_accelerations"

\* the cooling functions that only read
CoolingReaders ==
    {"GetParticleUVBG", "find_abundances_and_rates", "PrimordialCoolingRate"}

\* C15, as amended: in a main-loop iteration GlobalUVBG is written at most
\* once; when primordial cooling is enabled (CoolingNoPrimordial = 0) an
\* iteration that goes on to compute_accelerations writes it exactly once, by
\* IonizeParams(All.Time) after find_next_sync_point_and_drift and before
\* compute_accelerations and before every read of it, and when primordial
\* cooling is disabled IonizeParams returns without writing; the cooling
\* functions never write GlobalUVBG nor the rate tables.
C15_UVBGWrittenByIonizeParams ==
    \A r \in Ranks :
        /\ WritesTo(r, "ratetables") = {}
        /\ \A k \in WritesTo(r, "GlobalUVBG") :
                uvbgLog[r][k].fn = "IonizeParamsTable" /\ k = 1
        /\ \A k \in 1 .. Len(uvbgLog[r]) :
                uvbgLog[r][k].fn \in CoolingReaders => uvbgLog[r][k].op = "read"
        /\ ~ReachedAccel(r) => uvbgLog[r] = <<>>
        /\ ReachedAccel(r) =>
            /\ Cardinality(WritesTo(r, "GlobalUVBG"))
                    = (IF CoolingNoPrimordial THEN 0 ELSE 1)
            /\ trace[r][1] = "find_next_sync_point_and_drift"
            /\ trace[r][3] = "IonizeParams"
            /\ trace[r][4] = "compute_accelerations"
            /\ Occurrences(trace[r], "IonizeParams") = 1
            /\ ~CoolingNoPrimordial => GlobalUVBG[r] = IonizeParamsTable(Time[r])
            /\ CoolingNoPrimordial => GlobalUVBG[r] = ZeroUVBG

\* an iteration wrote a UV background that is present, and the cooling of a
\* gas particle read it
C15_Witness ==
    \E r \in Ranks :
        /\ ReachedAccel(r)
        /\ ~CoolingNoPrimordial
        /\ Time[r] > 0
        /\ GlobalUVBG[r].J_UV = 1
        /\ Cardinality(WritesTo(r, "GlobalUVBG")) = 1
        /\ \E k \in 2 .. Len(uvbgLog[r]) :
                uvbgLog[r][k].fn = "GetParticleUVBG" /\ uvbgLog[r][k].obj = "GlobalUVBG"

\* C15, as claimed: every main-loop iteration writes GlobalUVBG exactly once.
C15_WrittenOnceEveryIteration ==
    \A r \in Ranks : ReachedAccel(r) => Cardinality(WritesTo(r, "GlobalUVBG")) = 1

\* C16: for logT <= Tmin find_abundances_and_rates returns the neutral
\* abundances exactly (nH0 = 1, nHe0 = YHELIUM, nHp = nHep = nHepp = 0, ne = 0),
\* for logT >= Tmax the fully ionized ones (nHp = 1, nHepp = YHELIUM,
\* nH0 = nHe0 = nHep = 0, ne = nHp + 2 nHepp); neither case iterates or reads a
\* rate table.
C16_NeutralAndIonizedLimits ==
    (coolIn.op = "find_abundances_and_rates" /\ coolOut.done) =>
        LET o == coolOut.res
            y == o.y
        IN  /\ coolIn.logT <= Tmin =>
                /\ y.nH0 = NH_UNIT /\ y.nHe0 = YHELIUM
                /\ y.nHp = 0 /\ y.nHep = 0 /\ y.nHepp = 0 /\ y.ne = 0
                /\ o.niter = 0 /\ o.reads = 0 /\ o.exit = 0
            /\ coolIn.logT >= Tmax =>
                /\ y.nHp = NH_UNIT /\ y.nHepp = YHELIUM
                /\ y.nH0 = 0 /\ y.nHe0 = 0 /\ y.nHep = 0
                /\ y.ne = y.nHp + 2 * y.nHepp
                /\ o.niter = 0 /\ o.reads = 0 /\ o.exit = 0
            /\ (coolIn.logT > Tmin /\ coolIn.logT < Tmax) => o.niter >= 1

\* the call at logT = Tmin returned the neutral abundances
C16_Witness ==
    /\ coolIn.op = "find_abundances_and_rates"
    /\ coolOut.done
    /\ coolIn.logT = Tmin
    /\ coolOut.res.y.nH0 = NH_UNIT
    /\ coolOut.res.niter = 0

\* C17, as claimed: the solvers end with endrun 13 and 12 exactly when
\* MAXITER iterations went by without the convergence test coming out true;
\* convergence at any of the iterations 1 .. MAXITER returns normally.
C17_FatalExactlyWithoutConvergence ==
    /\ (coolIn.op = "find_abundances_and_rates" /\ coolOut.done
            /\ coolIn.logT > Tmin /\ coolIn.logT < Tmax /\ ~coolIn.necgsSmall) =>
        (coolOut.res.exit = 13 <=> (coolIn.J_UV # 0 /\ coolIn.convAt > MAXITER))
    /\ (coolIn.op = "solve_equilibrium_temp" /\ coolOut.done
            /\ coolOut.res.exit # 13) =>
        (coolOut.res.exit = 12 <=> coolIn.tempConvAt > MAXITER)

\* a bracketing loop of DoCooling whose test holds and whose body changes
\* neither bound: the loop never ends
BracketStuck ==
    /\ coolIn.op = "DoCooling"
    /\ coolOut.entered
    /\ ~coolOut.done
    /\ coolOut.res.phase \in {"heating", "cooling"}
    /\ BracketTest(coolIn, coolOut.res)
    /\ BracketBody(coolOut.res) = coolOut.res

\* C18, as claimed: DoCooling terminates on every input; the bracket expansion
\* stops after finitely many steps, so no bracketing loop is ever at a fixed
\* point of its body with its test true.
C18_BracketExpansionStops == ~BracketStuck

\* C19: GetCoolingTime returns exactly 0 whenever the net rate at u_old is
\* >= 0, and the strictly positive u_old / (-ratefact * LambdaNet), in the
\* units of the caller, whenever the rate is < 0 and u_old > 0.
C19_CoolingTime ==
    (coolIn.op = "GetCoolingTime" /\ coolOut.done) =>
        LET t == coolOut.res
            rate == CoolingRateFromU(coolIn.LambdaNet)
        IN  /\ rate >= 0 => (t.num = 0 /\ t.den = 1)
            /\ (rate < 0 /\ coolIn.u_old > 0) =>
                /\ t.num > 0 /\ t.den > 0
                /\ t.num * (coolIn.rho * coolIn.density * (-rate) * coolIn.time)
                       = (coolIn.u_old * coolIn.uu) * t.den

\* a net cooling gas of positive energy got a positive cooling time
C19_Witness ==
    /\ coolIn.op = "GetCoolingTime"
    /\ coolOut.done
    /\ ~CoolingNoPrimordial
    /\ coolIn.LambdaNet < 0
    /\ coolIn.u_old > 0
    /\ coolOut.res.num > 0
    /\ coolOut.res.den > 0

\* the number of leading rows of the file with a nonzero gH0, at most TABLESIZE
LeadingRows(file) ==
    LET cut == {k \in 0 .. TABLESIZE :
                    k = TABLESIZE \/ k >= Len(file) \/ file[k + 1].gH0 = 0}
    IN  CHOOSE k \in cut : \A j \in cut : k <= j

\* C20: after ReadIonizeParams nheattab is the number of leading rows whose
\* gH0 is nonzero, that is the index of the first row with gH0 = 0, capped at
\* TABLESIZE; a file of k valid rows followed by a zero row gives k.
C20_TableLength ==
    (coolIn.op = "ReadIonizeParams" /\ coolOut.done) =>
        /\ nheattab = LeadingRows(coolIn.file)
        /\ \A i \in TableRows : i < nheattab => gH0[i] # 0
        /\ nheattab < TABLESIZE => gH0[nheattab] = 0

\* two valid rows, a zero row, and a valid row after it: the table has 2 rows
C20_Witness ==
    /\ coolIn.op = "ReadIonizeParams"
    /\ coolOut.done
    /\ Len(coolIn.file) >= 4
    /\ coolIn.file[1].gH0 # 0 /\ coolIn.file[2].gH0 # 0
    /\ coolIn.file[3].gH0 = 0 /\ coolIn.file[4].gH0 # 0
    /\ nheattab = 2

\* C21, as claimed: IonizeParamsTable clears GlobalUVBG when the table is
\* empty, when logz is above the highest tabulated inlogz or when a bracketing
\* row has gH0 = 0; in every other case J_UV is nonzero and the two rows it
\* interpolates between are valid (below nheattab, gH0 nonzero) and bracket
\* the query: inlogz[ilow] <= logz <= inlogz[ilow + 1].
C21_ZeroOrBracketed ==
    (coolIn.op = "IonizeParamsTable" /\ coolOut.done) =>
        \A r \in Ranks :
            LET g == GlobalUVBG[r]
                logz == logzOf(coolIn.time)
                ilow == g.rates[1]
            IN  /\ (nheattab = 0 \/ logz > inlogz[nheattab - 1]) => g = ZeroUVBG
                /\ g.J_UV = 0 => g = ZeroUVBG
                /\ g.J_UV # 0 =>
                    /\ ilow >= 0 /\ ilow + 1 < nheattab
                    /\ gH0[ilow] # 0 /\ gH0[ilow + 1] # 0
                    /\ inlogz[ilow] <= logz /\ logz <= inlogz[ilow + 1]

\* C22, as claimed: after InitCool with cooling on and an empty TreeCool file
\* name no fatal error was raised and no table file was read, DoCooling
\* returns the u_old it was given and IonizeParams leaves GlobalUVBG unchanged.
C22_EmptyTreeCoolIsNoOp ==
    (initCool.CoolingOn /\ initCool.TreeCoolFile = "") =>
        /\ initCool.exit = 0
        /\ initCool.filesRead = <<>>
        /\ (coolIn.op = "DoCooling" /\ coolOut.done) => coolOut.res.u = coolIn.u_old
        /\ (coolIn.op = "IonizeParams" /\ coolOut.done) => GlobalUVBG = coolOut.res.before

\* C28, as claimed: every element of inlogz[] and gH0[] that IonizeParamsTable
\* reads has an index in 0 .. TABLESIZE - 1.
C28_TableReadsInBounds ==
    (coolIn.op = "IonizeParamsTable" /\ coolOut.done) =>
        \A rd \in coolOut.res.reads : rd[2] \in TableRows

\* the elements of a sequence
Range(seq) == {seq[k] : k \in 1 .. Len(seq)}

\* the particles below an internal node: what the tree links between the
\* node's first daughter and its sibling
RECURSIVE Under(_, _, _)
Under(cur, stop, fuel) ==
    IF cur < 0 \/ cur = stop \/ fuel = 0 THEN {}
    ELSE IF cur < MaxPart THEN {cur} \cup Under(Tree.Nextnode[cur], stop, fuel - 1)
    ELSE IF cur >= MaxPart + MaxNodes
    THEN Under(Tree.Nextnode[cur - MaxNodes], stop, fuel - 1)
    ELSE Under(Tree.Nodes[cur].nextnode, stop, fuel - 1)

ParticlesOf(no) == Under(Tree.Nodes[no].nextnode, Tree.Nodes[no].sibling, WalkFuel)

\* the internal nodes the walk left by the cutoff test, and the nodes and
\* particles an interaction was counted for
DroppedNodes == Range(WalkOut.dropped)
CountedNodes == {c[2] : c \in {d \in Range(WalkOut.counted) : d[1] = "node"}}

\* the node lies outside the cutoff sphere, and on some axis its centre is
\* further from the target than rcut plus half its side
OutsideCutoff(nop) ==
    /\ nop.r2 > rcut * rcut
    /\ \E k \in 1 .. 3 :
        (IF nop.dist[k] < 0 THEN -nop.dist[k] ELSE nop.dist[k]) * 2 > 2 * rcut + nop.len

\* C26: a multi-particle internal node that comes to the cutoff test is
\* skipped with its whole subtree (the walk goes on at its sibling, the node
\* is not used, none of its particles is visited, no interaction is counted
\* for it) if and only if r^2 > rcut^2 and on at least one axis the distance
\* from the target to the node centre exceeds rcut + 0.5*len in absolute
\* value; a node with r^2 <= rcut^2 is never skipped by the cutoff test.
C26_CutoffSkip ==
    WalkOut.done =>
        \A no \in Range(WalkOut.tested) :
            LET nop == Tree.Nodes[no] IN
            /\ no \in DroppedNodes <=> OutsideCutoff(nop)
            /\ no \in DroppedNodes =>
                    /\ no \notin UsedNodes
                    /\ no \notin CountedNodes
                    /\ ParticlesOf(no) \cap VisitedParticles = {}
            /\ nop.r2 <= rcut * rcut => no \notin DroppedNodes

C26_Witness ==
    /\ WalkOut.done
    /\ Inner \in DroppedNodes
    /\ ParticlesOf(Inner) = {0, 1}
    /\ Tree.Nodes[Inner].dist = <<0, -3, 0>>

\* the walk meets no pseudo-particle, and a walk for an imported target has
\* every top-level node it meets in its node list
WellFormedLocalTree ==
    /\ ~HasPseudo
    /\ (WalkIn.mode = 1 /\ Tree.Nodes[Inner].toplevel /\ ~IsPairTree) =>
            \E k \in DOMAIN Tree.NodeList : Tree.NodeList[k] = Inner

\* the entries of the node list before its first negative entry
RECURSIVE StartNodes(_)
StartNodes(k) ==
    IF k < NODELISTLENGTH /\ Tree.NodeList[k] >= 0
    THEN <<Tree.NodeList[k]>> \o StartNodes(k + 1)
    ELSE <<>>

\* C29: on a tree without pseudo-particles the walk terminates and counts no
\* particle twice: no leaf and no node is visited twice, no visited leaf
\* lies in a node used as one point mass, the particle sets of two such
\* nodes are disjoint, every particle of the tree is a visited leaf, in a
\* used node or in a subtree the cutoff test dropped; and the start nodes
\* walked are the entries of NodeList, in order, before its first negative
\* entry, at most NODELISTLENGTH of them.
C29_EachParticleOnce ==
    (WalkOut.done /\ WellFormedLocalTree) =>
        /\ ~WalkOut.exhausted
        /\ WalkOut.ret >= 0
        /\ \A j, k \in 1 .. Len(WalkOut.visited) :
                WalkOut.visited[j] = WalkOut.visited[k] => j = k
        /\ \A no \in UsedNodes : ParticlesOf(no) \cap VisitedParticles = {}
        /\ \A no, mo \in UsedNodes : no # mo => ParticlesOf(no) \cap ParticlesOf(mo) = {}
        /\ \A no \in UsedNodes : \A mo \in DroppedNodes :
                ParticlesOf(no) \cap ParticlesOf(mo) = {}
        /\ Under(Tree.Nodes[Root].nextnode, -1, WalkFuel)
                \subseteq (VisitedParticles
                           \cup UNION {ParticlesOf(no) : no \in UsedNodes \cup DroppedNodes})
        /\ WalkOut.started = StartNodes(0)
        /\ Len(WalkOut.started) <= NODELISTLENGTH

C29_Witness ==
    /\ WalkOut.done
    /\ WellFormedLocalTree
    /\ WalkOut.started = <<Root, Inner>>
    /\ VisitedParticles = {0, 1}
    /\ Len(WalkOut.visited) = 2

\* the sum of a sequence of numbers
RECURSIVE SumSeq(_)
SumSeq(seq) == IF seq = <<>> THEN 0 ELSE Head(seq) + SumSeq(Tail(seq))

AllReduced == Results.primary /\ Results.ghosts = DOMAIN Results.remote

SyncReturns(r) == pc[r] = "sync" /\ pc'[r] # "sync"

\* the integer times find_next_outputtime(ti_curr) chooses from
OutputTisFrom(ti_curr) == {ti \in OutputTis : ti >= ti_curr}

C27_TimeMovesForward ==
    /\ [](\A kick \in 0 .. TIMEBASE, nextout \in 0 .. TIMEBASE :
            SnapshotLoopCond(kick, nextout) =>
                find_next_outputtime(nextout + 1, OutputListTimes) > nextout)
    /\ [](\A r \in Ranks :
            /\ Len(snapshots[r]) <= OutputListLength + 1
            /\ \A j, k \in 1 .. Len(snapshots[r]) :
                    j < k => snapshots[r][j].ti < snapshots[r][k].ti)
    /\ [][\A r \in Ranks :
            /\ Ti_Current'[r] >= Ti_Current[r]
            /\ SyncReturns(r) =>
                    (Ti_nextoutput'[r] > Ti_Current'[r] \/ Ti_nextoutput'[r] < 0)]_vars

\* one call has written two snapshots, and a later call has moved the time on
\* with a forced snapshot pending
C27_Witness ==
    \E r \in Ranks :
        /\ Len(snapshots[r]) = 1
        /\ Cardinality(written[r]) >= 3
        /\ NumCurrentTiStep[r] >= 1
        /\ Ti_nextoutput[r] > Ti_Current[r]

\* the step is a call of ShouldWeDoDynamicUpdate
DynamicUpdateCalled == \A r \in Ranks : ~dynUpdate[r].called /\ dynUpdate'[r].called

\* C30: ShouldWeDoDynamicUpdate changes none of Ti_Current, Ti_nextoutput,
\* TimeBinActive, Flag_FullStep, GlobNumForceUpdate and
\* NumForcesSinceLastDomainDecomp; when TimeBinCount is the same on every
\* rank at the next call of find_next_sync_point_and_drift, that call leaves Ti_Current at the
\* predicted kick time and GlobNumForceUpdate at the predicted count; and the
\* function returns 0 exactly when NumForcesSinceLastDomainDecomp plus the
\* predicted count is at least TreeDomainUpdateFrequency * TotNumPart.
C30_DynamicUpdatePrediction ==
    /\ [][DynamicUpdateCalled =>
            /\ UNCHANGED << Ti_Current, Ti_nextoutput, TimeBinActive, Flag_FullStep,
                            GlobNumForceUpdate, NumForcesSinceLastDomainDecomp >>
            /\ \A r \in Ranks :
                    dynUpdate'[r].ret \in {0, 1}
                    /\ (dynUpdate'[r].ret = 0 <=>
                            NumForcesSinceLastDomainDecomp[r] + dynUpdate'[r].numforces
                                >= TreeDomainUpdateFrequency * TotNumPart)]_vars
    /\ [][\A r \in Ranks :
            (SyncReturns(r) /\ dynUpdate[r].called
                /\ \A q \in Ranks : dynUpdate[q].TimeBinCount = TimeBinCount[q]) =>
                    /\ Ti_Current'[r] = dynUpdate[r].ti_next_kick_global
                    /\ GlobNumForceUpdate'[r] = dynUpdate[r].numforces]_vars

\* a call after advance_and_find_timesteps predicted a later kick with fewer
\* forces than the threshold and returned 1, and
\* find_next_sync_point_and_drift has run since
C30_Witness ==
    \E r \in Ranks :
        /\ pc[r] = "accel"
        /\ dynUpdate[r].called
        /\ dynUpdate[r].ret = 1
        /\ \A q \in Ranks : dynUpdate[q].TimeBinCount = TimeBinCount[q]
        /\ Ti_Current[r] = dynUpdate[r].ti_next_kick_global
        /\ Ti_Current[r] > 0
        /\ GlobNumForceUpdate[r] = 1
        /\ TotNumPart = 2

\* a call of find_abundances_and_rates that iterates has returned
IteratedAbundances ==
    /\ coolIn.op = "find_abundances_and_rates"
    /\ coolOut.done
    /\ coolIn.logT > Tmin /\ coolIn.logT < Tmax

\* y->ne as the loop finds it: 1.0 stands in for 0
NeOnEntry == IF coolIn.ne = 0 THEN NH_UNIT ELSE coolIn.ne

\* C25, as claimed: for Tmin < logT < Tmax, whenever J_UV == 0 or
\* necgs <= 1e-25 the iteration exits after exactly one pass, leaves ne at
\* nHp + nHep + 2*nHepp of that pass, and raises no MAXITER error.
C25_OnePassWhenNegligible ==
    (IteratedAbundances /\ (coolIn.J_UV = 0 \/ coolIn.necgsSmall)) =>
        LET y == coolOut.res.y IN
        /\ coolOut.res.niter = 1
        /\ y.ne = y.nHp + y.nHep + 2 * y.nHepp
        /\ coolOut.res.exit # 13

\* C25: for Tmin < logT < Tmax, whenever J_UV == 0 the iteration exits after
\* exactly one pass, leaves ne at nHp + nHep + 2*nHepp of that pass, and
\* raises no MAXITER error.  With J_UV # 0 and necgs <= 1e-25 the
\* photoionization terms are zero but the iteration goes on: it exits after
\* one pass only when the average of the new ne and the ne on entry is within
\* the tolerance of the ne on entry, and it leaves ne at an average, within
\* the tolerance of the value before.
C25_OnePassWithoutUV ==
    IteratedAbundances =>
        LET y == coolOut.res.y
            ne38 == y.nHp + y.nHep + 2 * y.nHepp
            avg == (ne38 + NeOnEntry) \div 2
        IN  /\ coolIn.J_UV = 0 =>
                /\ coolOut.res.niter = 1
                /\ y.ne = ne38
                /\ coolOut.res.exit = 0
            /\ (coolIn.J_UV # 0 /\ coolIn.necgsSmall) =>
                /\ coolOut.res.niter = 1 <=> NeConverged(avg, NeOnEntry)
                /\ coolOut.res.niter = 1 => y.ne = avg
                /\ coolOut.res.exit = 0

\* necgs is negligible, J_UV is not, and the iteration took several passes
C25_Witness ==
    /\ IteratedAbundances
    /\ coolIn.J_UV # 0 /\ coolIn.necgsSmall
    /\ coolIn.ne = 0
    /\ coolOut.res.niter > 2
    /\ coolOut.res.exit = 0

====
